---------------------------- MODULE Spec2Model ----------------------------
(***************************************************************************)
(* A model of the resonance-characterisation core of demerge:              *)
(*   - the per-KID record created by divide_data and processed by          *)
(*     calc_resonance_params, make_reduced_fits and plot;                  *)
(*   - the fit-window sizing adjust_fitrange;                              *)
(*   - the glitch detector find_glitch and its helper _clusterize_indices. *)
(* Numbers are integers: every comparison the code makes between floating  *)
(* point quantities is restated on integers with the same truth value for  *)
(* the integer-valued inputs enumerated here.                              *)
(***************************************************************************)
EXTENDS Integers, Sequences, FiniteSets, TLC

VARIABLES
    kids,       \* the list of per-KID dictionaries (divide_data's result / the cache)
    uncaught,   \* kidids whose calc_resonance_params call ended in an exception
    product,    \* the tables make_reduced_fits wrote (None before it ran)
    call,       \* the arguments of the function under examination
    ret         \* what that call returned (or that it raised)

vars == <<kids, uncaught, product, call, ret>>

\* The state of the batch (the cache directory and the output file).
batch == <<kids, uncaught, product>>

(***************************************************************************)
(* Arithmetic helpers.                                                     *)
(***************************************************************************)

\* Python's int() on the quotient num/den (den > 0): truncation toward zero.
TruncDiv(num, den) ==
    IF num >= 0 THEN num \div den ELSE -((-num) \div den)

Abs(x) == IF x < 0 THEN -x ELSE x

Max(a, b) == IF a >= b THEN a ELSE b

Min(a, b) == IF a <= b THEN a ELSE b

\* The sum of the first k elements of s, and of their squares.
RECURSIVE SumTo(_, _)
SumTo(s, k) == IF k = 0 THEN 0 ELSE s[k] + SumTo(s, k - 1)

RECURSIVE SumSqTo(_, _)
SumSqTo(s, k) == IF k = 0 THEN 0 ELSE s[k] * s[k] + SumSqTo(s, k - 1)

SumSeq(s) == SumTo(s, Len(s))

SumSq(s) == SumSqTo(s, Len(s))

\* Len(s)^2 times the variance of s, i.e. (Len(s) * np.std(s))^2.
VarN2(s) == Len(s) * SumSq(s) - SumSeq(s) * SumSeq(s)

\* ys[mask]: the elements of ys selected by a boolean mask, in order.
Masked(ys, mask) ==
    LET idx == SelectSeq([k \in 1..Len(ys) |-> k], LAMBDA k : mask[k])
    IN  [j \in 1..Len(idx) |-> ys[idx[j]]]

AllFalse(n) == [k \in 1..n |-> FALSE]

\* The value of a call that has not returned yet.
None == [tag |-> "None"]
Pending == [tag |-> "pending"]

\* The value of a call that ended in an exception.
Raise == [tag |-> "raise"]

(***************************************************************************)
(* find_peaks and fitLorentzian (demerge.py 333-492).                      *)
(* A sweep is described by what the numerical library computes from it:    *)
(*   x0, n   the frequencies are x0, x0 + 1, ..., x0 + n - 1 in units of    *)
(*           the frequency step dfreq;                                     *)
(*   deriv2  the smoothed second derivative savgol_filter returns;         *)
(*   lorentz the parameters (f, q, d, bg) scipy's leastsq returns, in the  *)
(*           order of fitLorentzian's calls on this sweep;                 *)
(*   fit     what lmfit.minimize does on this sweep (see fit_onepeak).     *)
(***************************************************************************)

\* Line 351: the default smoothing window.
DefaultSmooth == 15

\* Line 354: the polynomial order handed to savgol_filter.
SavgolPolyorder == 3

\* Lines 443-453: int(np.ceil(n/2.0)*2 + 1).
oddify(n) == ((n + 1) \div 2) * 2 + 1

\* savgol_filter raises ValueError when polyorder is not below the window
\* length, or (mode 'interp') when the window is longer than the data.
SavgolRaises(n, smooth) ==
    \/ SavgolPolyorder >= oddify(smooth)
    \/ oddify(smooth) > n

\* The explicit detection threshold, or None.
NoThreshold == [tag |-> "None"]

\* Lines 358-361.  With threshold None it is 3*np.std of the samples within
\* 2 sigma, kept as the count G of those samples and G^2 times their variance.
DetectionThreshold(deriv2, threshold) ==
    IF threshold.tag = "None"
    THEN LET N    == Len(deriv2)
             V    == VarN2(deriv2)
             kept == Masked(deriv2, [k \in 1..N |-> deriv2[k] * deriv2[k] * N * N < 4 * V])
         IN  [tag |-> "sigma", G |-> Len(kept), V |-> VarN2(kept)]
    ELSE threshold

\* A slip in line 363: the NaN deviation of an empty selection counted as 0
\* and compared with >=.
AboveThreshold_nanzero(deriv2, th, i) ==
    IF th.tag = "sigma"
    THEN /\ deriv2[i + 1] >= 0
         /\ deriv2[i + 1] * deriv2[i + 1] * th.G * th.G >= 9 * th.V
    ELSE deriv2[i + 1] > th.value

\* Line 363, deriv2 > threshold at Python index i.  np.std of an empty
\* selection is NaN, which no sample exceeds.
AboveThreshold(deriv2, th, i) ==
    IF th.tag = "sigma"
    THEN /\ th.G > 0
         /\ deriv2[i + 1] > 0
         /\ deriv2[i + 1] * deriv2[i + 1] * th.G * th.G > 9 * th.V
    ELSE deriv2[i + 1] > th.value

\* deriv2[i] for a Python index that may be -1 (the last element).
PyAt(a, i) == IF i < 0 THEN a[Len(a) + i + 1] ELSE a[i + 1]

\* Line 364: the test that admits index i to kid_indices.
IsLocalMax(deriv2, i) ==
    /\ i < Len(deriv2) - 1
    /\ PyAt(deriv2, i - 1) <= PyAt(deriv2, i)
    /\ PyAt(deriv2, i) >= PyAt(deriv2, i + 1)

\* Lines 362-365: kid_indices, ascending.
KidIndices(deriv2, threshold) ==
    LET th == DetectionThreshold(deriv2, threshold)
    IN  SelectSeq([k \in 1..Len(deriv2) |-> k - 1],
                  LAMBDA i : AboveThreshold(deriv2, th, i) /\ IsLocalMax(deriv2, i))

\* Line 381: while l > 0 and deriv2[l] > 0: l -= 1.
RECURSIVE WalkLeft(_, _)
WalkLeft(deriv2, l) ==
    IF l > 0 /\ deriv2[l + 1] > 0 THEN WalkLeft(deriv2, l - 1) ELSE l

\* Line 382: while r < len(deriv2) and deriv2[r] > 0: r += 1.
RECURSIVE WalkRight(_, _)
WalkRight(deriv2, r) ==
    IF r < Len(deriv2) /\ deriv2[r + 1] > 0 THEN WalkRight(deriv2, r + 1) ELSE r

\* floor(k * 6/sqrt(3)) = floor(sqrt(12 k^2)) for k >= 0.
FwhmSteps(k) ==
    CHOOSE s \in (3 * k)..(4 * k) : s * s <= 12 * k * k /\ 12 * k * k < (s + 1) * (s + 1)

\* Lines 385 and 387: int((l - i)*6.0/np.sqrt(3) + i), clipped at 0.  The
\* product is irrational for l < i, and int() truncates toward zero.
FitLeft(l, i) ==
    LET s   == FwhmSteps(i - l)
        raw == IF l = i THEN i ELSE IF i > s THEN i - s - 1 ELSE i - s
    IN  IF raw < 0 THEN 0 ELSE raw

\* Lines 386 and 388: int((r - i)*6.0/np.sqrt(3) + i), clipped at len(freq) - 1.
FitRight(r, i, n) ==
    LET raw == i + FwhmSteps(r - i)
    IN  IF raw >= n THEN n - 1 ELSE raw

\* The number of samples of the Python slice a[l:r] of an array of n samples.
SliceLen(l, r, n) == Max(Min(r, n) - Max(l, 0), 0)

\* Lines 455-492: scipy.optimize.leastsq raises TypeError when the residual
\* vector is shorter than the 4 fitted parameters; otherwise fitLorentzian
\* returns the (fc, q, -b, a) the solver found.
LorentzParams == 4

fitLorentzianRaises(nsamples) == nsamples < LorentzParams

\* Lines 393 and 401: (bg - d)/bg > maxratio on floats, maxratio = num/den > 0.
\* A zero bg gives +inf, -inf or NaN.
RatioExceeds(fit, maxratio) ==
    LET x == fit.bg - fit.d
    IN  IF fit.bg > 0 THEN x * maxratio.den > maxratio.num * fit.bg
        ELSE IF fit.bg < 0 THEN x * maxratio.den < maxratio.num * fit.bg
        ELSE x > 0

\* Line 394: the number of samples added on each side for the second fit.
RefitMargin == 10

\* A slip in line 395: the widened window is never compared with the sweep.
CanRefit_always(l, r, n) == TRUE

\* Line 395: whether the widened window lies inside the sweep.
CanRefit(l, r, n) == l - RefitMargin >= 0 /\ r + RefitMargin < n

\* Lines 373-404: the loop over kid_indices from position p on.  `used` counts
\* the leastsq calls made so far, `acc` is the list kids.  The result is the
\* list kids and the number of leastsq calls, or the exception of a fit.
RECURSIVE LorentzLoop(_, _, _, _, _, _, _, _)
LorentzLoop(n, deriv2, lorentz, minq, maxratio, cands, p, st) ==
    IF p > Len(cands)
    THEN st
    ELSE LET i  == cands[p]
             l  == FitLeft(WalkLeft(deriv2, i), i)
             r  == FitRight(WalkRight(deriv2, i), i, n)
         IN  IF fitLorentzianRaises(SliceLen(l, r, n))
             THEN [st EXCEPT !.raised = TRUE]
             ELSE LET first == lorentz[st.used + 1]
                      refit == RatioExceeds(first, maxratio) /\ CanRefit(l, r, n)
                      fit   == IF refit THEN lorentz[st.used + 2] ELSE first
                      used  == IF refit THEN st.used + 2 ELSE st.used + 1
                      keep  == ~(fit.q < minq) /\ ~RatioExceeds(fit, maxratio)
                  IN  LorentzLoop(n, deriv2, lorentz, minq, maxratio, cands, p + 1,
                                  [st EXCEPT !.used = used,
                                             !.refits = IF refit THEN @ + 1 ELSE @,
                                             !.kids = IF keep THEN Append(@, fit) ELSE @])

\* Python's order on the tuples (f, q, d, bg).
TupleLess(a, b) ==
    \/ a.f < b.f
    \/ a.f = b.f /\ a.q < b.q
    \/ a.f = b.f /\ a.q = b.q /\ a.d < b.d
    \/ a.f = b.f /\ a.q = b.q /\ a.d = b.d /\ a.bg < b.bg

\* Line 410, kids.sort(): insertion of each tuple after the tuples not above it.
RECURSIVE SortTuples(_)
SortTuples(s) ==
    IF s = <<>> THEN <<>>
    ELSE LET rest == SortTuples(Tail(s))
             h    == Head(s)
             lo   == SelectSeq(rest, LAMBDA t : TupleLess(t, h))
             hi   == SelectSeq(rest, LAMBDA t : ~TupleLess(t, h))
         IN  lo \o <<h>> \o hi

\* A slip in line 414: the peak of the lowest frequency is taken.
NearestToCarrier_first(sorted, fc) == 1

\* Line 414, np.argmin(abs(f - fc)): the first position of the least distance.
NearestToCarrier(sorted, fc) ==
    CHOOSE p \in 1..Len(sorted) :
        /\ \A k \in 1..Len(sorted) : Abs(sorted[p].f - fc) <= Abs(sorted[k].f - fc)
        /\ \A k \in 1..(p - 1) : Abs(sorted[k].f - fc) > Abs(sorted[p].f - fc)

\* A slip in lines 413-415: every accepted peak is kept, wherever the carrier.
PickCarrierPeak_all(sorted, fc, x0, n) == sorted

\* Lines 413-415: only the peak nearest to the carrier is kept when the carrier
\* lies inside the sweep.
PickCarrierPeak(sorted, fc, x0, n) ==
    IF Len(sorted) > 0 /\ fc >= x0 /\ fc <= x0 + n - 1
    THEN <<sorted[NearestToCarrier(sorted, fc)]>>
    ELSE sorted

\* Lines 419-440: the dictionary of one peak.  f0ind = np.argmin(abs(freq - f))
\* is the index nearest to f, dl = dr = f/q/2/dfreq, stored as int(dl).
PeakDict(fit, x0, n) ==
    [Q |-> fit.q, f0 |-> fit.f,
     f0ind |-> Max(0, Min(fit.f - x0, n - 1)),
     dl |-> fit.f \div (2 * fit.q), dr |-> fit.f \div (2 * fit.q),
     ampl |-> fit.d, bg |-> fit.bg]

\* Line 423: int(f0ind - 3*dl) raises OverflowError when q is 0 (dl is inf).
PeakDictRaises(fit) == fit.q = 0

\* Lines 333-441.  The result is [tag |-> "raise"] or the list of peaks.
find_peaks(sweep, fc, smooth, threshold, minq, maxratio) ==
    IF sweep.n < 2 \/ SavgolRaises(sweep.n, smooth)
    THEN Raise
    ELSE LET cands == KidIndices(sweep.deriv2, threshold)
             st    == LorentzLoop(sweep.n, sweep.deriv2, sweep.lorentz, minq, maxratio,
                                  cands, 1,
                                  [raised |-> FALSE, used |-> 0, refits |-> 0, kids |-> <<>>])
             kept  == PickCarrierPeak(SortTuples(st.kids), fc, sweep.x0, sweep.n)
         IN  IF st.raised \/ \E k \in 1..Len(kept) : PeakDictRaises(kept[k])
             THEN Raise
             ELSE [tag |-> "peaks",
                   peaks |-> [k \in 1..Len(kept) |-> PeakDict(kept[k], sweep.x0, sweep.n)]]

(***************************************************************************)
(* adjust_fitrange (demerge.py 494-541).                                   *)
(***************************************************************************)

\* Number of parameters of the gaolinbg model: len(gaolinbg_param_names).
NParams == 8

\* The smallest value of (rend - rbegin + 1)*factor that adjust_fitrange accepts.
MinFitLength == 11

\* Lines 518-524: the window of nfwhm half-widths around the peak, widened by
\* n = nparams/((r - l + 1)*factor) when the peak itself has too few samples.
\* nfwhm is an integer (fit_onepeak's docstring), so both int() calls are
\* truncations of exact quotients.
UnclampedRange(nfwhm, nparams, peakparams, factor) ==
    LET f0ind == peakparams.f0ind
        l == f0ind - peakparams.dl
        c == f0ind
        r == f0ind + peakparams.dr
    IN  IF (r - l + 1) * factor >= nparams
        THEN [rbegin |-> c - nfwhm * (c - l), rend |-> c + nfwhm * (r - c)]
        ELSE LET den == (r - l + 1) * factor
             IN  [rbegin |-> TruncDiv(f0ind * den - nfwhm * nparams * (c - l), den),
                  rend   |-> TruncDiv(c * den + nfwhm * nparams * (r - c), den)]

\* Lines 525-531: the window sticks out on the left.
ClampLeft(w, ndata) ==
    IF w.rbegin < 0
    THEN IF w.rend + (-w.rbegin) >= ndata
         THEN [rbegin |-> 0, rend |-> ndata - 1]
         ELSE [rbegin |-> 0, rend |-> w.rend + (-w.rbegin)]
    ELSE w

\* Lines 532-538: the window sticks out on the right.
ClampRight(w, ndata) ==
    IF w.rend >= ndata
    THEN IF w.rbegin - (w.rend - ndata) < 0
         THEN [rbegin |-> 0, rend |-> ndata - 1]
         ELSE [rbegin |-> w.rbegin - (w.rend - ndata), rend |-> ndata - 1]
    ELSE w

\* Lines 525-538.
ClampRange(w, ndata) == ClampRight(ClampLeft(w, ndata), ndata)

\* A slip in the final test: the window is compared with the parameter count.
FitRangeTooSmall_nparams(w, factor) == (w.rend - w.rbegin + 1) * factor < NParams

\* Lines 539-540: the test that raises "Fit range guess error".
FitRangeTooSmall(w, factor) == (w.rend - w.rbegin + 1) * factor < MinFitLength

\* The whole function: slice(rbegin, rend) or the exception.
adjust_fitrange(nfwhm, ndata, nparams, peakparams, factor) ==
    LET w == ClampRange(UnclampedRange(nfwhm, nparams, peakparams, factor), ndata)
    IN  IF FitRangeTooSmall(w, factor)
        THEN Raise
        ELSE [tag |-> "slice", start |-> w.rbegin, stop |-> w.rend]

(***************************************************************************)
(* Specification SpecFit: adjust_fitrange applied to every bounded input.  *)
(***************************************************************************)

MaxData == 14
MaxHalf == 4
MaxNfwhm == 5

\* factor: 1 is the default (the value fit_onepeak leaves in place), 2 is what
\* the docstring asks for when a complex variable is fitted as a 2d-vector.
Factors == {1, 2}

\* A call with the parameter count of the gaolinbg model and a peak inside
\* the sweep.
FitCall(nf, nd, f0, dl, dr, fa) ==
    [fn |-> "adjust_fitrange", nfwhm |-> nf, ndata |-> nd, nparams |-> NParams,
     peakparams |-> [f0ind |-> f0, dl |-> dl, dr |-> dr], factor |-> fa]

InitFit ==
    /\ kids = <<>>
    /\ uncaught = {}
    /\ product = None
    /\ \E nf \in 1..MaxNfwhm, nd \in 1..MaxData, dl \in 0..MaxHalf, dr \in 0..MaxHalf,
          fa \in Factors :
          \E f0 \in 0..(nd - 1) : call = FitCall(nf, nd, f0, dl, dr, fa)
    /\ ret = Pending

AdjustFitrange ==
    /\ call.fn = "adjust_fitrange"
    /\ ret = Pending
    /\ ret' = adjust_fitrange(call.nfwhm, call.ndata, call.nparams,
                              call.peakparams, call.factor)
    /\ UNCHANGED <<batch, call>>

NextFit == AdjustFitrange

SpecFit == InitFit /\ [][NextFit]_vars

(***************************************************************************)
(* fit_onepeak (demerge.py 232-311) and calc_resonance_params              *)
(* (calc_resonance_params.py 27-98).                                       *)
(* A fitted value or standard error is one of the classes below of an IEEE *)
(* double; a standard error may also be None.  lmfit stores the solver's   *)
(* numpy floats, so a zero divisor gives an infinity or NaN.               *)
(***************************************************************************)

FloatClasses == {"ninf", "neg", "nzero", "pzero", "pos", "pinf", "nan"}

IsNaN(x) == x = "nan"

IsInf(x) == x \in {"ninf", "pinf"}

IsZero(x) == x \in {"nzero", "pzero"}

SignBit(x) == x \in {"ninf", "neg", "nzero"}

\* a/b < 0. on doubles: the quotient is neither NaN nor a (signed) zero and
\* the signs of a and b differ.
RatioNegative(a, b) ==
    /\ ~IsNaN(a)
    /\ ~IsNaN(b)
    /\ ~(IsZero(a) /\ IsZero(b))
    /\ ~(IsInf(a) /\ IsInf(b))
    /\ ~IsZero(a)
    /\ ~IsInf(b)
    /\ SignBit(a) # SignBit(b)

\* Python's None and a key a dictionary does not hold.
Absent == [tag |-> "absent"]

\* Line 84.
StderrMissing(p) ==
    p.dfr = "None" \/ p.dQr = "None" \/ p.dQc = "None" \/ p.dQi = "None"

\* Line 87.
AnyRatioNegative(p) ==
    \/ RatioNegative(p.dfr, p.fr)
    \/ RatioNegative(p.dQr, p.Qr)
    \/ RatioNegative(p.dQc, p.Qc)
    \/ RatioNegative(p.dQi, p.Qi)

\* Line 90.
AnyNaN(p) == IsNaN(p.fr) \/ IsNaN(p.dfr) \/ IsNaN(p.Qr) \/ IsNaN(p.dQr)

\* Line 93.
AnyInf(p) == IsInf(p.Qr) \/ IsInf(p.dQr)

\* A slip in the gate: the infinity test of line 93 is left out.
GateRejects_noinf(p) ==
    StderrMissing(p) \/ AnyRatioNegative(p) \/ AnyNaN(p)

\* Lines 84-94: the validity gate, in the order of its four tests.
GateRejects(p) ==
    StderrMissing(p) \/ AnyRatioNegative(p) \/ AnyNaN(p) \/ AnyInf(p)

\* Lines 40-47: on_no_peaks.
on_no_peaks(kid) ==
    [kid EXCEPT !.fitrange = None, !.resonance_params = None]

\* A slip in on_fit_failed: the record is left enabled.
on_fit_failed_enabled(kid) ==
    [kid EXCEPT !.fitrange = None, !.resonance_params = None]

\* Lines 49-57: on_fit_failed.
on_fit_failed(kid) ==
    [kid EXCEPT !.enabled = FALSE, !.fitrange = None, !.resonance_params = None]

\* A slip on the success path: the record is switched back on.
on_fit_accepted_enable(kid, fitrange, params) ==
    [kid EXCEPT !.enabled = TRUE, !.fitrange = fitrange,
                !.resonance_params = [tag |-> "Parameters", p |-> params]]

\* Lines 96-98: the accepted fit is stored.
on_fit_accepted(kid, fitrange, params) ==
    [kid EXCEPT !.fitrange = fitrange,
                !.resonance_params = [tag |-> "Parameters", p |-> params]]

\* Line 250: slice(None), the whole sweep.
SliceAll == [tag |-> "slice_all"]

\* Lines 232-311.  The result is the exception, (None, None), or the
\* MinimizerResult with the fit range.  sweep.fit is what lmfit.minimize does
\* on this sweep: it raises or returns the fitted parameters.
fit_onepeak(sweep, peaks, nfwhm) ==
    IF Len(peaks) = 0
    THEN [tag |-> "none"]
    ELSE IF nfwhm > 0 /\ Len(peaks) # 1
    THEN Raise
    ELSE LET s == IF nfwhm > 0
                  THEN adjust_fitrange(nfwhm, sweep.n, NParams, peaks[1], 1)
                  ELSE SliceAll
         IN  IF s = Raise \/ sweep.fit.tag = "raise"
             THEN Raise
             ELSE [tag |-> "fit", params |-> sweep.fit.params, fitrange |-> s]

\* Lines 27-98.  The result is the record as the call leaves it, whether the
\* call ended in an exception (find_peaks is called outside the try block) and
\* the number of calls of fit_onepeak it made.
calc_resonance_params(kid, nfwhm, minq, maxratio) ==
    LET found == find_peaks(kid.localsweep, kid.tod.frequency, DefaultSmooth,
                            NoThreshold, minq, maxratio)
    IN  IF found = Raise
        THEN [raised |-> TRUE, fitcalls |-> 0, kid |-> kid]
        ELSE IF Len(found.peaks) = 0
        THEN [raised |-> FALSE, fitcalls |-> 0, kid |-> on_no_peaks(kid)]
        ELSE LET fitted == fit_onepeak(kid.localsweep, found.peaks, nfwhm)
             IN  IF fitted = Raise
                 THEN [raised |-> FALSE, fitcalls |-> 1, kid |-> on_fit_failed(kid)]
                 ELSE IF GateRejects(fitted.params)
                 THEN [raised |-> FALSE, fitcalls |-> 1, kid |-> on_fit_failed(kid)]
                 ELSE [raised |-> FALSE, fitcalls |-> 1,
                       kid |-> on_fit_accepted(kid, fitted.fitrange, fitted.params)]

(***************************************************************************)
(* find_glitch and _clusterize_indices (demerge.py 601-705).               *)
(* A timestream is a sequence of integers; Python index i is TLA+ index    *)
(* i + 1.  A comparison |d| < k*sigma between a sample and a multiple of a *)
(* standard deviation is restated with both sides squared and multiplied   *)
(* by the squared sample count, which keeps it on integers (k >= 0).       *)
(***************************************************************************)

\* Line 625, np.average(yss, axis=0), kept as the column sums: Len(yss) times
\* the average.  Every later comparison is homogeneous in that factor.
GlitchAve(yss) ==
    [k \in 1..Len(yss[1]) |-> SumSeq([a \in 1..Len(yss) |-> yss[a][k]])]

\* Lines 673-674 with dx = 1: y[2:] + y[:-2] - 2*y[1:-1].
_numdif_2(y) == [k \in 1..(Len(y) - 2) |-> y[k + 2] + y[k] - 2 * y[k + 1]]

\* A slip in line 631: the baseline is cut at 2 sigma, whatever baseline_thresh.
Diff2Bad_twosigma(ave, baseline_thresh, glitch_thresh) ==
    LET diff2 == _numdif_2(ave)
        N     == Len(diff2)
        kept  == SelectSeq(diff2, LAMBDA x : x * x * N * N < 4 * VarN2(diff2))
        G     == Len(kept)
    IN  IF G = 0
        THEN AllFalse(N)
        ELSE [k \in 1..N |->
                diff2[k] * diff2[k] * G * G >= glitch_thresh * glitch_thresh * VarN2(kept)]

\* Lines 629-633: np.std of an empty selection is NaN, and every comparison
\* with NaN is False.
Diff2Bad(ave, baseline_thresh, glitch_thresh) ==
    LET diff2 == _numdif_2(ave)
        N     == Len(diff2)
        V     == VarN2(diff2)
        good  == [k \in 1..N |->
                    diff2[k] * diff2[k] * N * N < baseline_thresh * baseline_thresh * V]
        kept  == Masked(diff2, good)
        G     == Len(kept)
        VG    == VarN2(kept)
    IN  IF G = 0
        THEN AllFalse(N)
        ELSE [k \in 1..N |->
                diff2[k] * diff2[k] * G * G >= glitch_thresh * glitch_thresh * VG]

\* Line 642: invalid = int((len(weights) - 1)/2).
RollingInvalid(smrange) == (smrange - 1) \div 2

\* The common denominator of the rolling mean (smrange), of the mean of the
\* first `invalid` samples and of the mean of the last `invalid + 1` samples.
RollingScale(smrange) ==
    smrange * Max(RollingInvalid(smrange), 1) * (RollingInvalid(smrange) + 1)

\* Lines 638-646: RollingScale times (ave - smooth).  np.convolve(..., 'same')
\* sums the samples i - smrange//2 .. i - smrange//2 + smrange - 1 that exist;
\* the first `invalid` and the last `invalid + 1` values of smooth are replaced
\* by the mean of those samples of ave.
RollingResidual(ave, smrange) ==
    LET n       == Len(ave)
        invalid == RollingInvalid(smrange)
        K       == RollingScale(smrange)
        window(i) == { j \in (i - smrange \div 2)..(i - smrange \div 2 + smrange - 1) :
                         0 <= j /\ j < n }
        sumOver(S) == SumSeq([k \in 1..n |-> IF (k - 1) \in S THEN ave[k] ELSE 0])
        smoothK(i) ==
            IF i >= n - invalid - 1
            THEN (K \div (invalid + 1)) * sumOver((n - invalid - 1)..(n - 1))
            ELSE IF i < invalid
            THEN (K \div invalid) * sumOver(0..(invalid - 1))
            ELSE (K \div smrange) * sumOver(window(i))
    IN  [k \in 1..n |-> K * ave[k] - smoothK(k - 1)]

\* Lines 648-653: the same trimming on the residual, about its mean.
RollingBad(ave, baseline_thresh, glitch_thresh, smrange) ==
    LET ave_sm == RollingResidual(ave, smrange)
        N      == Len(ave_sm)
        S      == SumSeq(ave_sm)
        V      == VarN2(ave_sm)
        good   == [k \in 1..N |->
                    (N * ave_sm[k] - S) * (N * ave_sm[k] - S)
                        < baseline_thresh * baseline_thresh * V]
        kept   == Masked(ave_sm, good)
        G      == Len(kept)
        SG     == SumSeq(kept)
        VG     == VarN2(kept)
    IN  IF G = 0
        THEN AllFalse(N)
        ELSE [k \in 1..N |->
                (G * ave_sm[k] - SG) * (G * ave_sm[k] - SG)
                    >= glitch_thresh * glitch_thresh * VG]

\* Whether one of the two comparisons of the rolling-mean mode is an exact tie.
\* There the code's answer rests on floating-point rounding of the 1/smrange
\* weights and of the means, so such inputs are not enumerated below.
RollingTie(ave, baseline_thresh, glitch_thresh, smrange) ==
    LET ave_sm == RollingResidual(ave, smrange)
        N      == Len(ave_sm)
        S      == SumSeq(ave_sm)
        V      == VarN2(ave_sm)
        good   == [k \in 1..N |->
                    (N * ave_sm[k] - S) * (N * ave_sm[k] - S)
                        < baseline_thresh * baseline_thresh * V]
        kept   == Masked(ave_sm, good)
        G      == Len(kept)
        SG     == SumSeq(kept)
        VG     == VarN2(kept)
    IN  \/ \E k \in 1..N :
              (N * ave_sm[k] - S) * (N * ave_sm[k] - S)
                  = baseline_thresh * baseline_thresh * V
        \/ /\ G > 0
           /\ \E k \in 1..N :
                 (G * ave_sm[k] - SG) * (G * ave_sm[k] - SG)
                     = glitch_thresh * glitch_thresh * VG

\* Lines 698-704: the loop of _clusterize_indices from Python index i on.
RECURSIVE ClusterizeLoop(_, _, _, _, _)
ClusterizeLoop(results, i, prev, first, threshold) ==
    IF i >= Len(results)
    THEN results
    ELSE IF results[i + 1]
         THEN LET filled ==
                    IF (~first) /\ i - prev <= threshold + 1
                    THEN [j \in 1..Len(results) |->
                            IF prev <= j - 1 /\ j - 1 < i THEN TRUE ELSE results[j]]
                    ELSE results
              IN  ClusterizeLoop(filled, i + 1, i, FALSE, threshold)
         ELSE ClusterizeLoop(results, i + 1, prev, first, threshold)

\* A slip in the gap test: gaps must be shorter than the threshold.
_clusterize_indices_strict(indices, threshold) ==
    ClusterizeLoop(indices, 0, 0, TRUE, threshold - 1)

\* Lines 695-705: the returned list.
_clusterize_indices(indices, threshold) ==
    ClusterizeLoop(indices, 0, 0, TRUE, threshold)

\* Line 695, results = np.copy(indices): the loop writes to a copy, so the
\* caller's array holds after the call what it held before.
ClusterizeArgAfter(indices, results) == indices

\* A slip in the padding: only the first sample is added back.
EdgePadded_front(bad) == <<bad[1]>> \o bad

\* Line 659: np.concatenate(([bad[0]], bad, [bad[-1]])).
EdgePadded(bad) == <<bad[1]>> \o bad \o <<bad[Len(bad)]>>

\* A slip in line 664: the flag is read from bad_, so an extension is extended
\* again.
RECURSIVE OffsetLoop_cascade(_, _, _, _)
OffsetLoop_cascade(bad, bad_, i, offset) ==
    IF i >= Len(bad)
    THEN bad_
    ELSE IF bad_[i + 1]
         THEN OffsetLoop_cascade(bad,
                                 [k \in 1..Len(bad_) |->
                                    IF i <= k - 1 /\ k - 1 <= i + offset THEN TRUE ELSE bad_[k]],
                                 i + 1, offset)
         ELSE OffsetLoop_cascade(bad, bad_, i + 1, offset)

\* Lines 663-667: the loop over bad from Python index i on, writing to bad_.
RECURSIVE OffsetLoop(_, _, _, _)
OffsetLoop(bad, bad_, i, offset) ==
    IF i >= Len(bad)
    THEN bad_
    ELSE IF bad[i + 1]
         THEN OffsetLoop(bad,
                         [k \in 1..Len(bad_) |->
                            IF i <= k - 1 /\ k - 1 <= i + offset THEN TRUE ELSE bad_[k]],
                         i + 1, offset)
         ELSE OffsetLoop(bad, bad_, i + 1, offset)

\* Lines 661-667.
OffsetApplied(bad, offset) ==
    IF offset > 0 THEN OffsetLoop(bad, bad, 0, offset) ELSE bad

\* The mask of find_glitch before the offset step (lines 625-659).  The caller
\* has checked that none of the exceptions below is raised.
GlitchBeforeOffset(yss, baseline_thresh, glitch_thresh, clusterize_thresh, opt_diff2, smrange) ==
    LET ave == GlitchAve(yss)
        bad == IF opt_diff2
               THEN Diff2Bad(ave, baseline_thresh, glitch_thresh)
               ELSE RollingBad(ave, baseline_thresh, glitch_thresh, smrange)
        clustered == _clusterize_indices(bad, clusterize_thresh)
    IN  IF opt_diff2 THEN EdgePadded(clustered) ELSE clustered

\* The exceptions of find_glitch: xs[1] on a one-sample timestream (line 627),
\* the assertion len(ave) > len(weights) (line 639) and bad[0] on the empty
\* mask of a two-sample timestream (line 659).
GlitchRaises(yss, opt_diff2, smrange) ==
    \/ Len(yss[1]) < 2
    \/ (~opt_diff2) /\ ~(Len(yss[1]) > smrange)
    \/ opt_diff2 /\ Len(yss[1]) - 2 = 0

\* Lines 601-671 (returnval = False).
find_glitch(yss, baseline_thresh, glitch_thresh, clusterize_thresh, offset, opt_diff2, smrange) ==
    IF GlitchRaises(yss, opt_diff2, smrange)
    THEN Raise
    ELSE [tag |-> "mask",
          bad |-> OffsetApplied(
                    GlitchBeforeOffset(yss, baseline_thresh, glitch_thresh,
                                       clusterize_thresh, opt_diff2, smrange),
                    offset)]

(***************************************************************************)
(* Specification SpecGlitch: find_glitch and _clusterize_indices applied   *)
(* to every bounded input.                                                 *)
(***************************************************************************)

MaxLen == 5
MaxMask == 7
MaxGap == 3

\* Sample values of a timestream.
Samples == {0, 1, 4}

\* baseline_thresh (default 6.0) and glitch_thresh (default 5.0).
BaselineThresholds == {1, 6}
GlitchThresholds == {1, 2}

\* clusterize_thresh (default 2).
ClusterizeThresholds == {0, 2}

\* offset and smrange.
Offsets == {0, 1, 2}
SmoothRanges == {1, 2, 3}

SeqsUpTo(S, n) == UNION { [1..m -> S] : m \in 0..n }

GlitchCall(ys, bt, gt, ct, off, d2, sm) ==
    [fn |-> "find_glitch", yss |-> <<ys>>, baseline_thresh |-> bt,
     glitch_thresh |-> gt, clusterize_thresh |-> ct, offset |-> off,
     opt_diff2 |-> d2, smrange |-> sm]

\* smrange is read in the rolling-mean mode only: the second-derivative calls
\* keep its default.
GlitchCallDistinct(c) == c.opt_diff2 => c.smrange = 1

\* The calls whose result does not rest on the rounding of a tie.
GlitchCallDecided(c) ==
    \/ c.opt_diff2
    \/ GlitchRaises(c.yss, c.opt_diff2, c.smrange)
    \/ ~RollingTie(GlitchAve(c.yss), c.baseline_thresh, c.glitch_thresh, c.smrange)

ClusterizeCall(m, t) == [fn |-> "_clusterize_indices", indices |-> m, threshold |-> t]

InitGlitch ==
    /\ kids = <<>>
    /\ uncaught = {}
    /\ product = None
    /\ \/ \E ys \in SeqsUpTo(Samples, MaxLen) \ {<<>>}, bt \in BaselineThresholds,
             gt \in GlitchThresholds, ct \in ClusterizeThresholds, off \in Offsets,
             d2 \in BOOLEAN, sm \in SmoothRanges :
             /\ GlitchCallDistinct(GlitchCall(ys, bt, gt, ct, off, d2, sm))
             /\ GlitchCallDecided(GlitchCall(ys, bt, gt, ct, off, d2, sm))
             /\ call = GlitchCall(ys, bt, gt, ct, off, d2, sm)
       \/ \E m \in SeqsUpTo(BOOLEAN, MaxMask), t \in 0..MaxGap : call = ClusterizeCall(m, t)
    /\ ret = Pending

FindGlitch ==
    /\ call.fn = "find_glitch"
    /\ ret = Pending
    /\ ret' = find_glitch(call.yss, call.baseline_thresh, call.glitch_thresh,
                          call.clusterize_thresh, call.offset, call.opt_diff2,
                          call.smrange)
    /\ UNCHANGED <<batch, call>>

ClusterizeIndices ==
    /\ call.fn = "_clusterize_indices"
    /\ ret = Pending
    /\ LET results == _clusterize_indices(call.indices, call.threshold)
       IN  ret' = [tag |-> "mask", bad |-> results,
                   indices |-> ClusterizeArgAfter(call.indices, results)]
    /\ UNCHANGED <<batch, call>>

NextGlitch == FindGlitch \/ ClusterizeIndices

SpecGlitch == InitGlitch /\ [][NextGlitch]_vars

(***************************************************************************)
(* The per-KID record (demerge.py 27-58) and the inputs of the             *)
(* resonance stage.                                                        *)
(***************************************************************************)

\* TODs.offset (demerge.py line 1076) and the [:-100] of make_reduced_fits (line 39).
TailCut == 100

\* a[:-TailCut] of an array of n samples has this many samples.
CutTail(n) == Max(n - TailCut, 0)

\* Lines 41-57: the dictionary divide_data makes for the tone at position i of
\* find_nearest_blind_tones' list.  It holds neither 'fitrange' nor
\* 'resonance_params', nor the keys make_reduced_fits adds.
NewKid(i, tone, ntime) ==
    [pixelid |-> 0, kidid |-> i, localsweep |-> tone.localsweep,
     tod |-> [frequency |-> tone.fc, len |-> CutTail(ntime)],
     tod_timestamp |-> ntime, enabled |-> TRUE,
     fitrange |-> Absent, resonance_params |-> Absent,
     amp |-> Absent, ph |-> Absent, linph |-> Absent,
     yfc |-> Absent, linyfc |-> Absent, rewound_tod |-> Absent]

\* Lines 27-58.
divide_data(tones, ntime) ==
    [i \in 1..Len(tones) |-> NewKid(i - 1, tones[i], ntime)]

\* The sweep length of the detailed inputs, and the lengths too short for
\* freq[1] (line 349) and for the smoothing window (line 354).
SweepLen == 30
ShortSweeps == {1, 16}

\* The frequency of the first sweep sample, in units of dfreq.
SweepStarts == {2000}

\* A second derivative with one sharp maximum at Python index c.
Bump(n, c) ==
    [k \in 1..n |-> IF k - 1 = c THEN 3 ELSE IF Abs(k - 1 - c) = 1 THEN -1 ELSE 0]

\* A second derivative with sharp maxima at c1 and c2 (c1 + 2 < c2).
TwoBumps(n, c1, c2) ==
    [k \in 1..n |-> Bump(n, c1)[k] + Bump(n, c2)[k]]

Flat(n) == [k \in 1..n |-> 0]

\* What leastsq may return for a peak at index c: the centre on the peak or
\* beside it, a quality factor below or above minq, a depth that keeps or
\* exceeds maxratio.
LorentzQs == {50, 200, 1000, 2000}

\* A Lorentzian centred on the peak, with a depth within maxratio.
LorentzAt(x0, c, q) == [f |-> x0 + c, q |-> q, d |-> 1, bg |-> 2]

LorentzFits(x0, c) ==
    { [f |-> x0 + c + o, q |-> q, d |-> d, bg |-> 2] :
        o \in {0, 2}, q \in LorentzQs, d \in {1, -1} }

\* The fitted values and standard errors the validity gate reads.
ParamNames == {"fr", "dfr", "Qr", "dQr", "Qc", "dQc", "Qi", "dQi"}
StderrNames == {"dfr", "dQr", "dQc", "dQi"}

GoodParams ==
    [fr |-> "pos", dfr |-> "pos", Qr |-> "pos", dQr |-> "pos",
     Qc |-> "pos", dQc |-> "pos", Qi |-> "pos", dQi |-> "pos"]

ClassesOf(name) ==
    IF name \in StderrNames THEN FloatClasses \cup {"None"} ELSE FloatClasses

\* The parameter sets that differ from GoodParams in at most k places.
MaxFaults == 2
FaultyAt(S) ==
    { [nm \in ParamNames |-> IF nm \in S THEN f[nm] ELSE GoodParams[nm]] :
        f \in { g \in [S -> FloatClasses \cup {"None"}] : \A nm \in S : g[nm] \in ClassesOf(nm) } }

Faulty(k) ==
    UNION { FaultyAt(S) : S \in { T \in SUBSET ParamNames : Cardinality(T) <= k } }

\* What lmfit.minimize does: it raises, or it returns parameters.
FitRaises == [tag |-> "raise"]
FitReturns(p) == [tag |-> "params", params |-> p]

FewFits ==
    { FitRaises, FitReturns(GoodParams), FitReturns([GoodParams EXCEPT !.Qr = "pinf"]),
      FitReturns([GoodParams EXCEPT !.dQc = "None"]) }

Sweep(x0, n, deriv2, lorentz, fit) ==
    [x0 |-> x0, n |-> n, deriv2 |-> deriv2, lorentz |-> lorentz, fit |-> fit]

\* The tones of the resonance stage: a sweep and the carrier frequency.
Tone(localsweep, fc) == [localsweep |-> localsweep, fc |-> fc]

\* A sweep of n samples without any feature.
FlatTone(x0, n, fit) == Tone(Sweep(x0, n, Flat(n), <<>>, fit), x0 + n \div 2)

\* One resonance at index c; b is the result of a second Lorentzian fit.
BumpCentres == {0, 1, 5, 15, SweepLen - 2, SweepLen - 1}

BumpTone(x0, c, a, b, fit) ==
    Tone(Sweep(x0, SweepLen, Bump(SweepLen, c), <<a, b>>, fit), x0 + c)

\* Two resonances, with the carrier outside the sweep or inside it.
TwoBumpCarriers(x0) == {x0 - 5, x0 + 20}

TwoBumpTone(x0, q1, q2, fc, fit) ==
    Tone(Sweep(x0, SweepLen, TwoBumps(SweepLen, 6, 22),
               <<LorentzAt(x0, 6, q1), LorentzAt(x0, 22, q2)>>, fit), fc)

\* One well-formed resonance with the fitted parameters p.
GateTone(x0, p) ==
    Tone(Sweep(x0, SweepLen, Bump(SweepLen, 15), <<LorentzAt(x0, 15, 200)>>, FitReturns(p)),
         x0 + 15)

\* The length of the time-ordered data before the tail is cut.
TodLength == 103

\* nfwhm: 0 fits the whole sweep, 5 is the default (line 27).
DefaultNfwhm == 5
Nfwhms == {0, 1, DefaultNfwhm}

\* minq and maxratio as calc_resonance_params passes them (line 27).
DefaultMinq == 100
DefaultMaxratio == [num |-> 1, den |-> 1]

\* A call on the record divide_data makes of a tone, with the default minq and
\* maxratio.
CalcCall(tone, nf) ==
    [fn |-> "calc_resonance_params", kid |-> NewKid(0, tone, TodLength),
     nfwhm |-> nf, minq |-> DefaultMinq, maxratio |-> DefaultMaxratio]

(***************************************************************************)
(* Specification SpecGate: one call of calc_resonance_params on a record   *)
(* fresh from divide_data.                                                 *)
(***************************************************************************)

InitGate ==
    /\ kids = <<>>
    /\ uncaught = {}
    /\ product = None
    /\ \E x0 \in SweepStarts, nf \in Nfwhms :
          \/ \E p \in Faulty(IF nf = DefaultNfwhm THEN MaxFaults ELSE 1) :
                call = CalcCall(GateTone(x0, p), nf)
          \/ \E n \in ShortSweeps \cup {SweepLen}, fit \in FewFits :
                call = CalcCall(FlatTone(x0, n, fit), nf)
          \/ \E c \in BumpCentres, fit \in FewFits :
                \E a \in LorentzFits(x0, c), b \in LorentzFits(x0, c) :
                   call = CalcCall(BumpTone(x0, c, a, b, fit), nf)
          \/ \E q1 \in LorentzQs, q2 \in LorentzQs, fit \in FewFits :
                \E fc \in TwoBumpCarriers(x0) :
                   call = CalcCall(TwoBumpTone(x0, q1, q2, fc, fit), nf)
    /\ ret = Pending

\* The call returns the record, or ends in the exception find_peaks raised.
CalcOnce ==
    /\ call.fn = "calc_resonance_params"
    /\ ret = Pending
    /\ LET out == calc_resonance_params(call.kid, call.nfwhm, call.minq, call.maxratio)
       IN  ret' = IF out.raised
                  THEN Raise
                  ELSE [tag |-> "returned", kid |-> out.kid, fitcalls |-> out.fitcalls]
    /\ UNCHANGED <<batch, call>>

NextGate == CalcOnce

SpecGate == InitGate /\ [][NextGate]_vars

(***************************************************************************)
(* Specification SpecOnePeak: the calls of SpecGate, and fit_onepeak called *)
(* by itself on a sweep with two resonances, with the peaks find_peaks      *)
(* returns for it or with an empty list.                                    *)
(***************************************************************************)

OnePeakCall(sweep, peaks, nf) ==
    [fn |-> "fit_onepeak", sweep |-> sweep, peaks |-> peaks, nfwhm |-> nf]

\* The peak lists handed to fit_onepeak: what find_peaks returns for the tone,
\* and the empty list.
PeakLists(tone) ==
    LET found == find_peaks(tone.localsweep, tone.fc, DefaultSmooth, NoThreshold,
                            DefaultMinq, DefaultMaxratio)
    IN  IF found = Raise THEN {<<>>} ELSE {<<>>, found.peaks}

InitOnePeak ==
    /\ kids = <<>>
    /\ uncaught = {}
    /\ product = None
    /\ \E x0 \in SweepStarts, nf \in Nfwhms, fit \in FewFits, q1 \in LorentzQs, q2 \in LorentzQs :
          \E fc \in TwoBumpCarriers(x0) :
             \E peaks \in PeakLists(TwoBumpTone(x0, q1, q2, fc, fit)) :
                call = OnePeakCall(TwoBumpTone(x0, q1, q2, fc, fit).localsweep, peaks, nf)
    /\ ret = Pending

FitOnePeak ==
    /\ call.fn = "fit_onepeak"
    /\ ret = Pending
    /\ ret' = fit_onepeak(call.sweep, call.peaks, call.nfwhm)
    /\ UNCHANGED <<batch, call>>

NextOnePeak == CalcOnce \/ FitOnePeak

SpecOnePeak == (InitGate \/ InitOnePeak) /\ [][NextOnePeak]_vars

(***************************************************************************)
(* Specification SpecPeaks: one call of find_peaks, on featureless sweeps  *)
(* of every length up to SweepLen and on sweeps with one resonance.        *)
(***************************************************************************)

\* Values of smooth: 1 gives the window 3, not above the polynomial order.
Smooths == {1, 4, DefaultSmooth}

Thresholds == {NoThreshold, [tag |-> "value", value |-> 0], [tag |-> "value", value |-> 5]}

\* Carriers of a sweep with two resonances: below the sweep, on its first
\* sample, between the resonances, on its last sample, above it.
PeaksCarriers(x0) == {x0 - 5, x0, x0 + 14, x0 + 15, x0 + SweepLen - 1, x0 + SweepLen}

PeaksCall(sweep, fc, smooth, threshold) ==
    [fn |-> "find_peaks", sweep |-> sweep, fc |-> fc, smooth |-> smooth,
     threshold |-> threshold, minq |-> DefaultMinq, maxratio |-> DefaultMaxratio]

InitPeaks ==
    /\ kids = <<>>
    /\ uncaught = {}
    /\ product = None
    /\ \E x0 \in SweepStarts, smooth \in Smooths, threshold \in Thresholds :
          \/ \E n \in 1..SweepLen :
                call = PeaksCall(Sweep(x0, n, Flat(n), <<>>, FitRaises), x0 + n \div 2, smooth, threshold)
          \/ \E c \in BumpCentres :
                \E a \in LorentzFits(x0, c) :
                   call = PeaksCall(Sweep(x0, SweepLen, Bump(SweepLen, c), <<a, LorentzAt(x0, c, 200)>>, FitRaises), x0 + c, smooth, threshold)
          \/ \E a \in LorentzFits(x0, 6), b \in LorentzFits(x0, 22) :
                \E fc \in PeaksCarriers(x0) :
                   call = PeaksCall(Sweep(x0, SweepLen, TwoBumps(SweepLen, 6, 22), <<a, b, LorentzAt(x0, 6, 200), LorentzAt(x0, 22, 200)>>, FitRaises), fc, smooth, threshold)
    /\ ret = Pending

FindPeaks ==
    /\ call.fn = "find_peaks"
    /\ ret = Pending
    /\ ret' = find_peaks(call.sweep, call.fc, call.smooth, call.threshold, call.minq, call.maxratio)
    /\ UNCHANGED <<batch, call>>

NextPeaks == FindPeaks

SpecPeaks == InitPeaks /\ [][NextPeaks]_vars

(***************************************************************************)
(* make_reduced_fits (make_reduced_fits.py 25-205) and plot (plot.py       *)
(* 31-35), as far as they read and write the per-KID record.  A series is  *)
(* described by its length and by whether it holds NaN or computed values. *)
(***************************************************************************)

Series(kind, n) == [kind |-> kind, len |-> n]

\* Line 43: kid.get('resonance_params') is None, for a missing key as well.
HasNoParams(kid) == kid.resonance_params \in {None, Absent}

\* Lines 159-164: the keys written back to the record.
ReducedKid(kid) ==
    IF HasNoParams(kid)
    THEN LET nts == CutTail(kid.tod_timestamp)
         IN  [kid EXCEPT !.amp = Series("nan", nts), !.ph = Series("nan", nts),
                         !.linph = Series("nan", nts), !.yfc = "nan", !.linyfc = "nan",
                         !.rewound_tod = None]
    ELSE [kid EXCEPT !.amp = Series("val", kid.tod.len), !.ph = Series("val", kid.tod.len),
                     !.linph = Series("val", kid.tod.len), !.yfc = "val", !.linyfc = "val",
                     !.rewound_tod = [tag |-> "FixedFitData", len |-> kid.tod.len]]

\* A slip in lines 44-53: a record without parameters gets 0 instead of NaN.
FitinfoRow_zero(kid) ==
    IF HasNoParams(kid)
    THEN [kidid |-> kid.kidid, fc |-> kid.tod.frequency, yfc |-> "zero", linyfc |-> "zero",
          params |-> [nm \in ParamNames |-> "zero"]]
    ELSE [kidid |-> kid.kidid, fc |-> kid.tod.frequency, yfc |-> "val", linyfc |-> "val",
          params |-> kid.resonance_params.p]

\* Line 144: the row of the KID table.
FitinfoRow(kid) ==
    IF HasNoParams(kid)
    THEN [kidid |-> kid.kidid, fc |-> kid.tod.frequency, yfc |-> "nan", linyfc |-> "nan",
          params |-> [nm \in ParamNames |-> "nan"]]
    ELSE [kidid |-> kid.kidid, fc |-> kid.tod.frequency, yfc |-> "val", linyfc |-> "val",
          params |-> kid.resonance_params.p]

\* Lines 153-154: the 'Amp, Ph, linPh <kidid>' column of the readout table.
ReadoutColumn(kid) ==
    LET r == ReducedKid(kid)
    IN  [kidid |-> kid.kidid, amp |-> r.amp, ph |-> r.ph, linph |-> r.linph]

\* Lines 172-204: the two tables of the output file.
ReducedProduct(ks) ==
    [nkid |-> Len(ks),
     kidsinfo |-> [i \in 1..Len(ks) |-> FitinfoRow(ks[i])],
     timestamp |-> CutTail(ks[1].tod_timestamp),
     readout |-> [i \in 1..Len(ks) |-> ReadoutColumn(ks[i])]]

\* Lines 25-205.  Every record is rewritten inside the loop; the tables are
\* written after it.  np.array(fitinfo)[:, i] raises for an empty batch and
\* hdus.writeto raises when the output file exists.
make_reduced_fits(ks, existing) ==
    [kids |-> [i \in 1..Len(ks) |-> ReducedKid(ks[i])],
     raised |-> Len(ks) = 0 \/ existing # None,
     product |-> IF Len(ks) = 0 \/ existing # None THEN existing ELSE ReducedProduct(ks)]

\* plot.py: nothing is drawn for a disabled record or for resonance_params
\* None; a record without the key 'resonance_params', or without the rewound
\* TOD make_reduced_fits stores, ends in an exception.  The record is only read.
plot(kid) ==
    IF kid.enabled = FALSE THEN [tag |-> "none"]
    ELSE IF kid.resonance_params = Absent THEN Raise
    ELSE IF kid.resonance_params = None THEN [tag |-> "none"]
    ELSE IF kid.rewound_tod \in {None, Absent} THEN Raise
    ELSE [tag |-> "figures"]

(***************************************************************************)
(* Specification SpecKid: the records of a batch from divide_data on,      *)
(* under any sequence of calc_resonance_params, make_reduced_fits and plot.*)
(***************************************************************************)

KidCounts == {1, 2}

\* nfwhm of a call: a narrow window, or the default.
KidNfwhms == {1, 5}

\* The tones of a batch: a sweep too short to smooth, a featureless sweep, a
\* resonance, and a resonance so narrow that only the default window holds
\* enough samples.
KidTonesAt(x0) ==
    { FlatTone(x0, 16, FitReturns(GoodParams)),
      FlatTone(x0, SweepLen, FitReturns(GoodParams)),
      GateTone(x0, GoodParams),
      Tone(Sweep(x0, SweepLen, Bump(SweepLen, 15), <<LorentzAt(x0, 15, 1000)>>,
                 FitReturns(GoodParams)), x0 + 15) }

KidTones == UNION { KidTonesAt(x0) : x0 \in SweepStarts }

InitKid ==
    /\ \E n \in KidCounts : \E tones \in [1..n -> KidTones] :
          kids = divide_data(tones, TodLength)
    /\ uncaught = {}
    /\ product = None
    /\ call = [fn |-> "divide_data"]
    /\ ret = [tag |-> "returned"]

\* calc_resonance_params.main on the cache file of record i: the file is
\* rewritten only when the call returns.
CalcResonanceParams(i, nfwhm) ==
    LET out == calc_resonance_params(kids[i], nfwhm, DefaultMinq, DefaultMaxratio)
    IN  /\ kids' = [kids EXCEPT ![i] = out.kid]
        /\ uncaught' = IF out.raised THEN uncaught \cup {kids[i].kidid} ELSE uncaught
        /\ call' = [fn |-> "calc_resonance_params", kidid |-> kids[i].kidid]
        /\ ret' = IF out.raised THEN Raise ELSE [tag |-> "returned"]
        /\ UNCHANGED product

\* make_reduced_fits on all the cache files, in the order of the batch.
MakeReducedFits ==
    LET out == make_reduced_fits(kids, product)
    IN  /\ kids' = out.kids
        /\ product' = out.product
        /\ call' = [fn |-> "make_reduced_fits"]
        /\ ret' = IF out.raised THEN Raise ELSE [tag |-> "returned"]
        /\ UNCHANGED uncaught

\* plot on record i.
Plot(i) ==
    /\ call' = [fn |-> "plot", kidid |-> kids[i].kidid]
    /\ ret' = plot(kids[i])
    /\ UNCHANGED batch

NextKid ==
    \/ \E i \in 1..Len(kids) : \E nfwhm \in KidNfwhms : CalcResonanceParams(i, nfwhm)
    \/ MakeReducedFits
    \/ \E i \in 1..Len(kids) : Plot(i)

SpecKid == InitKid /\ [][NextKid]_vars

(***************************************************************************)
(* interpolate_bad (demerge.py 741-754).                                   *)
(* A sample of a float array is an exact rational [num, den] (den > 0).    *)
(***************************************************************************)

\* The float an integer sample becomes.
AsFloat(y) == [num |-> y, den |-> 1]

\* a = b as numbers.
RatEq(a, b) == a.num * b.den = b.num * a.den

\* xs[~bad]: the Python indices of the samples that are not flagged, ascending.
GoodIndices(bad) == SelectSeq([k \in 1..Len(bad) |-> k - 1], LAMBDA i : ~bad[i + 1])

\* A slip in the interpolation: the value of the point on the left is held up
\* to the next point.
LineAt_left(xa, ya, xb, yb, x) == ya

\* The straight line through (xa, ya) and (xb, yb) at x: slope*(x - xa) + ya.
LineAt(xa, ya, xb, yb, x) ==
    [num |-> ya.num * yb.den * (xb - xa) + (yb.num * ya.den - ya.num * yb.den) * (x - xa),
     den |-> ya.den * yb.den * (xb - xa)]

\* A slip in np.interp's search: the sample at x itself is never used, so a
\* good sample is replaced by the line through its good neighbours.
InterpAt_neighbours(xp, ys, x) ==
    LET below == { j \in 1..Len(xp) : xp[j] < x }
        above == { j \in 1..Len(xp) : xp[j] > x }
    IN  IF below = {} /\ above = {} THEN ys[x + 1]
        ELSE IF below = {} THEN ys[xp[1] + 1]
        ELSE IF above = {} THEN ys[xp[Len(xp)] + 1]
        ELSE LET a == xp[CHOOSE j \in below : \A k \in below : k <= j]
                 b == xp[CHOOSE j \in above : \A k \in above : j <= k]
             IN  LineAt(a, ys[a + 1], b, ys[b + 1], x)

\* np.interp(x, xp, fp) with fp = ys[xp]: fp[0] left of the first point, fp[-1]
\* right of the last, fp[j] at a point, the line between the two points around
\* x otherwise.
InterpAt(xp, ys, x) ==
    IF x <= xp[1] THEN ys[xp[1] + 1]
    ELSE IF x >= xp[Len(xp)] THEN ys[xp[Len(xp)] + 1]
    ELSE LET j == CHOOSE k \in 1..(Len(xp) - 1) : xp[k] <= x /\ x < xp[k + 1]
         IN  IF xp[j] = x THEN ys[x + 1]
             ELSE LineAt(xp[j], ys[xp[j] + 1], xp[j + 1], ys[xp[j + 1] + 1], x)

\* A slip: the interpolated values are written into the array passed in.
InterpArgAfter_inplace(ys, deglitched) == deglitched

\* The array passed in, after the call: np.interp writes to a new array.
InterpArgAfter(ys, deglitched) == ys

\* Lines 741-754.  np.interp raises ValueError when no sample is unflagged.
interpolate_bad(ys, bad) ==
    LET xp == GoodIndices(bad)
    IN  IF Len(xp) = 0
        THEN Raise
        ELSE LET deglitched == [k \in 1..Len(ys) |-> InterpAt(xp, ys, k - 1)]
             IN  [tag |-> "array", ys |-> deglitched, arg |-> InterpArgAfter(ys, deglitched)]

(***************************************************************************)
(* Specification SpecDeglitch: interpolate_bad on every bounded timestream *)
(* and mask of its length, then once more on the result with an empty mask.*)
(***************************************************************************)

InterpCall(ys, bad, pass) ==
    [fn |-> "interpolate_bad", ys |-> ys, bad |-> bad, pass |-> pass]

InitDeglitch ==
    /\ kids = <<>>
    /\ uncaught = {}
    /\ product = None
    /\ \E n \in 0..MaxLen :
          \E ys \in [1..n -> Samples], bad \in [1..n -> BOOLEAN] :
             call = InterpCall([k \in 1..n |-> AsFloat(ys[k])], bad, 1)
    /\ ret = Pending

InterpolateBad ==
    /\ call.fn = "interpolate_bad"
    /\ ret = Pending
    /\ ret' = interpolate_bad(call.ys, call.bad)
    /\ UNCHANGED <<batch, call>>

\* The second deglitching pass: the deglitched timestream with an empty mask.
SecondPass ==
    /\ call.fn = "interpolate_bad"
    /\ call.pass = 1
    /\ ret # Pending
    /\ ret.tag = "array"
    /\ call' = InterpCall(ret.ys, AllFalse(Len(ret.ys)), 2)
    /\ ret' = Pending
    /\ UNCHANGED batch

NextDeglitch == InterpolateBad \/ SecondPass

SpecDeglitch == InitDeglitch /\ [][NextDeglitch]_vars

(***************************************************************************)
(* calibrate_with_blind_tones (demerge.py 707-739).                        *)
(* A complex sample is either finite, the exact number (re + i im)/den     *)
(* with den > 0, or not finite (a component is inf or NaN).  numpy array   *)
(* arithmetic does not raise on a division by zero: it yields inf or NaN.  *)
(***************************************************************************)

Fin(re, im, den) == [tag |-> "c", re |-> re, im |-> im, den |-> den]

NonFinite == [tag |-> "nonfinite"]

\* The quotient of a finite number by a non-finite one: 0 or NaN.
ZeroOrNaN == [tag |-> "zero_or_nan"]

IsFin(a) == a.tag = "c"

IsZeroC(a) == IsFin(a) /\ a.re = 0 /\ a.im = 0

IsOneC(a) == IsFin(a) /\ a.re = a.den /\ a.im = 0

CAdd(a, b) ==
    IF IsFin(a) /\ IsFin(b)
    THEN Fin(a.re * b.den + b.re * a.den, a.im * b.den + b.im * a.den, a.den * b.den)
    ELSE NonFinite

CSub(a, b) ==
    IF IsFin(a) /\ IsFin(b)
    THEN Fin(a.re * b.den - b.re * a.den, a.im * b.den - b.im * a.den, a.den * b.den)
    ELSE NonFinite

\* a / b for complex a and b.
CDiv(a, b) ==
    IF ~IsFin(a) THEN NonFinite
    ELSE IF ~IsFin(b) THEN ZeroOrNaN
    ELSE IF IsZeroC(b) THEN NonFinite
    ELSE Fin(b.den * (a.re * b.re + a.im * b.im), b.den * (a.im * b.re - a.re * b.im), a.den * (b.re * b.re + b.im * b.im))

\* a / d for a real d: anything over zero is inf or NaN.
CDivReal(a, d) ==
    IF ~IsFin(a) \/ d = 0 THEN NonFinite
    ELSE IF d > 0 THEN Fin(a.re, a.im, a.den * d)
    ELSE Fin(-a.re, -a.im, a.den * (-d))

\* a * m for a real m: inf * 0 and NaN * 0 are NaN.
CMulReal(a, m) == IF IsFin(a) THEN Fin(a.re * m, a.im * m, a.den) ELSE NonFinite

RECURSIVE CSumTo(_, _)
CSumTo(iq, k) == IF k = 0 THEN Fin(0, 0, 1) ELSE CAdd(CSumTo(iq, k - 1), iq[k])

\* np.average(iq); of an empty array it is NaN.
Average(iq) == IF Len(iq) = 0 THEN NonFinite ELSE CDivReal(CSumTo(iq, Len(iq)), Len(iq))

\* calib_r - calib_l of line 736.
GainDifference(calib_r, calib_l) == CSub(calib_r, calib_l)

\* Lines 731-739 for tones (freq, IQ) with IQ arrays of one length.
calibrate_with_blind_tones(signal, blind_left, blind_right) ==
    LET f_s == signal.f
        iq_s == signal.iq
        f_l == blind_left.f
        iq_l == blind_left.iq
        f_r == blind_right.f
        iq_r == blind_right.iq
        avg_l == Average(iq_l)
        avg_r == Average(iq_r)
        calib_l(k) == CDiv(iq_l[k], avg_l)
        calib_r(k) == CDiv(iq_r[k], avg_r)
        calib_s(k) == CAdd(calib_l(k), CMulReal(CDivReal(GainDifference(calib_r(k), calib_l(k)), f_r - f_l), f_s - f_l))
    IN  [k \in 1..Len(iq_s) |-> CDiv(iq_s[k], calib_s(k))]

(***************************************************************************)
(* Specification SpecCalib: one blind-tone calibration of bounded tones.   *)
(***************************************************************************)

MaxTod == 2

\* Tone frequencies and IQ samples (re, im) the calibrator is run on.
ToneFreqs == {1, 2, 4}

IQSamples == {<<1, 0>>, <<-1, 0>>, <<0, 2>>}

ToneData(f, n, s) == [f |-> f, iq |-> [k \in 1..n |-> Fin(s[k][1], s[k][2], 1)]]

CalibCall(signal, blind_left, blind_right) ==
    [fn |-> "calibrate_with_blind_tones", signal |-> signal, blind_left |-> blind_left, blind_right |-> blind_right]

InitCalib ==
    /\ kids = <<>>
    /\ uncaught = {}
    /\ product = None
    /\ \E n \in 0..MaxTod :
          \E fs \in ToneFreqs, fl \in ToneFreqs, fr \in ToneFreqs :
             \E ss \in [1..n -> IQSamples], sl \in [1..n -> IQSamples], sr \in [1..n -> IQSamples] :
                call = CalibCall(ToneData(fs, n, ss), ToneData(fl, n, sl), ToneData(fr, n, sr))
    /\ ret = Pending

CalibrateWithBlindTones ==
    /\ call.fn = "calibrate_with_blind_tones"
    /\ ret = Pending
    /\ ret' = [tag |-> "array", iq |-> calibrate_with_blind_tones(call.signal, call.blind_left, call.blind_right)]
    /\ UNCHANGED <<batch, call>>

NextCalib == CalibrateWithBlindTones

SpecCalib == InitCalib /\ [][NextCalib]_vars

(***************************************************************************)
(* find_nearest_blind_tones (demerge.py 60-116) and the deprecated         *)
(* kids_with_both_blinds (dmerge_deprecated.py 8-69) with tod = None.      *)
(* A kidslist is the pair of lists [kids, blinds] of bin numbers; the      *)
(* header and the powers are not read.  An entry of a result row is a bin  *)
(* or None.                                                                *)
(***************************************************************************)

SomeBin(b) == [tag |-> "bin", bin |-> b]

Elems(s) == { s[k] : k \in 1..Len(s) }

\* sorted(list): ascending, by insertion of the head into the sorted tail.
RECURSIVE SortedList(_)
SortedList(s) ==
    IF s = <<>> THEN <<>>
    ELSE LET rest == SortedList(Tail(s))
             h    == Head(s)
         IN  SelectSeq(rest, LAMBDA t : t < h) \o <<h>> \o SelectSeq(rest, LAMBDA t : ~(t < h))

\* list.index(x): the Python index of the first occurrence.
ListIndex(s, x) == (CHOOSE k \in 1..Len(s) : s[k] = x /\ \A j \in 1..(k - 1) : s[j] # x) - 1

\* A slip in lines 101-107: only the tone next to the KID is looked at.
LeftTone_adjacent(all_tones, blinds, i) ==
    IF i >= 0 /\ all_tones[i + 1] \in Elems(blinds) THEN SomeBin(all_tones[i + 1]) ELSE None

\* Lines 100-107: the walk to the left from Python index i.
RECURSIVE LeftTone(_, _, _)
LeftTone(all_tones, blinds, i) ==
    IF i < 0 THEN None
    ELSE IF all_tones[i + 1] \in Elems(blinds) THEN SomeBin(all_tones[i + 1])
    ELSE LeftTone(all_tones, blinds, i - 1)

\* Lines 108-115: the walk to the right from Python index i.
RECURSIVE RightTone(_, _, _)
RightTone(all_tones, blinds, i) ==
    IF i >= Len(all_tones) THEN None
    ELSE IF all_tones[i + 1] \in Elems(blinds) THEN SomeBin(all_tones[i + 1])
    ELSE RightTone(all_tones, blinds, i + 1)

\* Lines 95-116.
find_nearest_blind_tones(kidslist) ==
    LET all_tones == SortedList(kidslist.kids \o kidslist.blinds)
        sorted    == SortedList(kidslist.kids)
    IN  [p \in 1..Len(sorted) |->
            [kid   |-> sorted[p],
             left  |-> LeftTone(all_tones, kidslist.blinds, ListIndex(all_tones, sorted[p]) - 1),
             right |-> RightTone(all_tones, kidslist.blinds, ListIndex(all_tones, sorted[p]) + 1)]]

\* dmerge_deprecated.py 41-52: the while/else to the left; "skip" stands for
\* the continue of line 52.
RECURSIVE DeprecatedLeft(_, _, _, _)
DeprecatedLeft(allkeys, blinds, pos, allow_without_blind) ==
    IF pos < 0 THEN (IF allow_without_blind THEN None ELSE [tag |-> "skip"])
    ELSE IF allkeys[pos + 1] \in Elems(blinds) THEN SomeBin(allkeys[pos + 1])
    ELSE DeprecatedLeft(allkeys, blinds, pos - 1, allow_without_blind)

\* dmerge_deprecated.py 53-67: the while/else to the right.
RECURSIVE DeprecatedRight(_, _, _, _)
DeprecatedRight(allkeys, blinds, pos, allow_without_blind) ==
    IF pos >= Len(allkeys) THEN (IF allow_without_blind THEN None ELSE [tag |-> "skip"])
    ELSE IF allkeys[pos + 1] \in Elems(blinds) THEN SomeBin(allkeys[pos + 1])
    ELSE DeprecatedRight(allkeys, blinds, pos + 1, allow_without_blind)

\* dmerge_deprecated.py 31-69 with tod = None: the rows from position p of
\* sorted(kids) on.
RECURSIVE DeprecatedLoop(_, _, _, _, _)
DeprecatedLoop(allkeys, blinds, sorted, p, allow_without_blind) ==
    IF p > Len(sorted) THEN <<>>
    ELSE LET k     == sorted[p]
             left  == DeprecatedLeft(allkeys, blinds, ListIndex(allkeys, k) - 1, allow_without_blind)
             right == DeprecatedRight(allkeys, blinds, ListIndex(allkeys, k) + 1, allow_without_blind)
             rest  == DeprecatedLoop(allkeys, blinds, sorted, p + 1, allow_without_blind)
         IN  IF left.tag = "skip" \/ right.tag = "skip"
             THEN rest
             ELSE <<[kid |-> k, left |-> left, right |-> right]>> \o rest

kids_with_both_blinds(kidslist, allow_without_blind) ==
    DeprecatedLoop(SortedList(kidslist.kids \o kidslist.blinds), kidslist.blinds,
                   SortedList(kidslist.kids), 1, allow_without_blind)

(***************************************************************************)
(* Specification SpecBlind: the two searches on every pair of lists of     *)
(* distinct bins, in any order, that have no bin in common.                *)
(***************************************************************************)

MaxTones == 3

Bins == {-3, -2, -1, 1, 2, 4}

\* The lists of n distinct bins of S, in every order.
DistinctLists(S, n) == { s \in [1..n -> S] : \A i \in 1..n, j \in 1..n : i # j => s[i] # s[j] }

BlindCall(ks, bs) == [fn |-> "find_nearest_blind_tones", kidslist |-> [kids |-> ks, blinds |-> bs]]

InitBlind ==
    /\ kids = <<>>
    /\ uncaught = {}
    /\ product = None
    /\ \E nk \in 0..MaxTones, nb \in 0..MaxTones :
          \E ks \in DistinctLists(Bins, nk) :
             \E bs \in DistinctLists(Bins \ Elems(ks), nb) :
                call = BlindCall(ks, bs)
    /\ ret = Pending

FindNearestBlindTones ==
    /\ call.fn = "find_nearest_blind_tones"
    /\ ret = Pending
    /\ ret' = [tag |-> "rows", by |-> "find_nearest_blind_tones", rows |-> find_nearest_blind_tones(call.kidslist)]
    /\ UNCHANGED <<batch, call>>

KidsWithBothBlinds ==
    /\ call.fn = "find_nearest_blind_tones"
    /\ ret = Pending
    /\ \E allow \in BOOLEAN :
          ret' = [tag |-> "rows", by |-> "kids_with_both_blinds", allow |-> allow,
                  rows |-> kids_with_both_blinds(call.kidslist, allow)]
    /\ UNCHANGED <<batch, call>>

NextBlind == FindNearestBlindTones \/ KidsWithBothBlinds

SpecBlind == InitBlind /\ [][NextBlind]_vars

(***************************************************************************)
(* The state labels of create_dems (merge/utils.py 674-704; the same lines *)
(* are merge_to_dems.py 196-218) with findR off.  A time is a number of    *)
(* half seconds, a longitude an integer or NaN.                            *)
(***************************************************************************)

LonNaN == [tag |-> "nan"]

Lon(v) == [tag |-> "lon", v |-> v]

\* a < lon for a bound a; False for a NaN longitude.
BoundBelow(a, lon) == lon.tag = "lon" /\ a < lon.v

\* lon < b for a bound b; False for a NaN longitude.
BoundAbove(lon, b) == lon.tag = "lon" /\ lon.v < b

\* Line 682: seconds = (times - times[0])/np.timedelta64(1, 's'), in half seconds.
HalfSeconds(times) == [k \in 1..Len(times) |-> times[k] - times[1]]

\* A slip in line 683: range(int(seconds[-1]) // period), without the + 1.
StillRounds_short(times, period) == ((HalfSeconds(times)[Len(times)] \div 2) \div period)

\* Line 683: the number of rounds, int(seconds[-1]) // period + 1.
StillRounds(times, period) == ((HalfSeconds(times)[Len(times)] \div 2) \div period) + 1

\* Lines 685-696: round i labels [2i p, (2i+1) p) OFF and [(2i+1) p, (2i+2) p) SCAN.
StillRound(state, seconds2, period, i) ==
    [k \in 1..Len(state) |->
        IF 2 * period * (2 * i + 1) <= seconds2[k] /\ seconds2[k] < 2 * period * (2 * i + 2) THEN "SCAN"
        ELSE IF 2 * period * (2 * i) <= seconds2[k] /\ seconds2[k] < 2 * period * (2 * i + 1) THEN "OFF"
        ELSE state[k]]

\* Lines 683-696: the rounds i, i + 1, .., rounds - 1.
RECURSIVE StillLoop(_, _, _, _, _)
StillLoop(state, seconds2, period, i, rounds) ==
    IF i >= rounds THEN state
    ELSE StillLoop(StillRound(state, seconds2, period, i), seconds2, period, i + 1, rounds)

\* A slip in lines 702-703: OFF assigned after SCAN.
ShuttleLabels_offlast(state, lon, r) ==
    [k \in 1..Len(state) |->
        IF BoundBelow(r.lon_min_off, lon[k]) /\ BoundAbove(lon[k], r.lon_max_off) THEN "OFF"
        ELSE IF BoundBelow(r.lon_min_on, lon[k]) /\ BoundAbove(lon[k], r.lon_max_on) THEN "SCAN"
        ELSE "JUNK"]

\* Lines 699-704: OFF on mask_off, then SCAN on mask_on, then JUNK off both.
ShuttleLabels(state, lon, r) ==
    LET mask_off == [k \in 1..Len(state) |-> BoundBelow(r.lon_min_off, lon[k]) /\ BoundAbove(lon[k], r.lon_max_off)]
        mask_on  == [k \in 1..Len(state) |-> BoundBelow(r.lon_min_on, lon[k]) /\ BoundAbove(lon[k], r.lon_max_on)]
        s1 == [k \in 1..Len(state) |-> IF mask_off[k] THEN "OFF" ELSE state[k]]
        s2 == [k \in 1..Len(state) |-> IF mask_on[k] THEN "SCAN" ELSE s1[k]]
    IN  [k \in 1..Len(state) |-> IF ~mask_off[k] /\ ~mask_on[k] THEN "JUNK" ELSE s2[k]]

\* Lines 674-704: the labels from the antenna log, then still, then shuttle.
create_dems_state(state, times, lon, still, period, shuttle, r) ==
    LET s1 == IF still
              THEN StillLoop(state, HalfSeconds(times), period, 0, StillRounds(times, period))
              ELSE state
    IN  IF shuttle THEN ShuttleLabels(s1, lon, r) ELSE s1

(***************************************************************************)
(* Specification SpecMerge: the labelling of bounded products, with still  *)
(* on over every timing and with shuttle on over every longitude.          *)
(***************************************************************************)

MaxSamples == 3
MaxStep == 5

\* Labels of the antenna log; GRAD also stands for an unknown state number.
AntennaLabels == {"GRAD", "SCAN"}

Periods == {1, 2}

\* The default ranges (0, 0) and ranges that are apart, overlap or nest.
OffRanges == {<<0, 0>>, <<0, 2>>, <<0, 4>>}
OnRanges == {<<0, 0>>, <<1, 3>>, <<2, 4>>}

LonValues == {LonNaN} \cup { Lon(v) : v \in 0..4 }

ShuttleRanges(off, on) ==
    [lon_min_off |-> off[1], lon_max_off |-> off[2], lon_min_on |-> on[1], lon_max_on |-> on[2]]

\* Non-decreasing times from t0 on with the given steps.
RECURSIVE TimesFrom(_, _, _)
TimesFrom(t0, steps, n) ==
    IF n = 1 THEN <<t0>>
    ELSE LET prev == TimesFrom(t0, steps, n - 1) IN Append(prev, prev[n - 1] + steps[n - 1])

MergeCall(state, times, lon, still, period, shuttle, r) ==
    [fn |-> "create_dems", state |-> state, times |-> times, lon |-> lon,
     still |-> still, period |-> period, shuttle |-> shuttle, ranges |-> r]

InitMerge ==
    /\ kids = <<>>
    /\ uncaught = {}
    /\ product = None
    /\ \E n \in 1..MaxSamples :
          \/ \E state \in [1..n -> AntennaLabels], steps \in [1..(n - 1) -> 0..MaxStep] :
                \E t0 \in {0, 3}, period \in Periods, still \in BOOLEAN :
                   call = MergeCall(state, TimesFrom(t0, steps, n), [k \in 1..n |-> Lon(0)],
                                    still, period, FALSE, ShuttleRanges(<<0, 0>>, <<0, 0>>))
          \/ \E label \in AntennaLabels, lon \in [1..n -> LonValues] :
                \E off \in OffRanges, on \in OnRanges, still \in BOOLEAN :
                   call = MergeCall([k \in 1..n |-> label], [k \in 1..n |-> 2 * k], lon,
                                    still, 1, TRUE, ShuttleRanges(off, on))
    /\ ret = Pending

CreateDems ==
    /\ call.fn = "create_dems"
    /\ ret = Pending
    /\ ret' = [tag |-> "state",
               state |-> create_dems_state(call.state, call.times, call.lon, call.still,
                                           call.period, call.shuttle, call.ranges)]
    /\ UNCHANGED <<batch, call>>

NextMerge == CreateDems

SpecMerge == InitMerge /\ [][NextMerge]_vars

(***************************************************************************)
(* _to_nbit_signed (demerge.py 1130-1134), which TODs.open applies to the  *)
(* BINi header values with n = npoints (lines 1064-1065).                  *)
(***************************************************************************)

\* ~x & (2**n - 1) on Python integers: ~x is -x - 1, and & with the mask of n
\* ones keeps its n low bits, also of a negative number.
NotLowBits(x, n) == (-x - 1) % (2 ^ n)

\* Lines 1130-1134.
_to_nbit_signed(x, n) ==
    IF x > 2 ^ (n - 1)
    THEN -(NotLowBits(x, n) + 1)
    ELSE x

(***************************************************************************)
(* Specification SpecBits: _to_nbit_signed on every n-bit value of every   *)
(* width up to MaxBits.                                                    *)
(***************************************************************************)

MaxBits == 6

ToSignedCall(x, n) == [fn |-> "_to_nbit_signed", x |-> x, n |-> n]

InitBits ==
    /\ kids = <<>>
    /\ uncaught = {}
    /\ product = None
    /\ \E n \in 1..MaxBits : \E x \in 0..(2 ^ n - 1) : call = ToSignedCall(x, n)
    /\ ret = Pending

ToNbitSigned ==
    /\ call.fn = "_to_nbit_signed"
    /\ ret = Pending
    /\ ret' = [tag |-> "int", value |-> _to_nbit_signed(call.x, call.n)]
    /\ UNCHANGED <<batch, call>>

NextBits == ToNbitSigned

SpecBits == InitBits /\ [][NextBits]_vars

(***************************************************************************)
(* Properties.                                                              *)
(***************************************************************************)

CalcReturned == call.fn = "calc_resonance_params" /\ ret # Pending

\* What find_peaks and fit_onepeak do within the examined call.
CallPeaks ==
    find_peaks(call.kid.localsweep, call.kid.tod.frequency, DefaultSmooth, NoThreshold,
               call.minq, call.maxratio)

CallFoundNoPeaks ==
    LET found == CallPeaks IN found # Raise /\ Len(found.peaks) = 0

CallFit ==
    LET found == CallPeaks
    IN  IF found # Raise /\ Len(found.peaks) > 0
        THEN fit_onepeak(call.kid.localsweep, found.peaks, call.nfwhm)
        ELSE [tag |-> "none"]

\* The record is in the Disabled state with null parameters.
IsDisabled(kid) ==
    /\ kid.enabled = FALSE
    /\ kid.fitrange = None
    /\ kid.resonance_params = None

\* C1: when find_peaks returns an empty list, calc_resonance_params returns the
\* record with enabled = False, fitrange = None and resonance_params = None.
C1_NoPeaksDisables ==
    (CalcReturned /\ CallFoundNoPeaks) =>
        (ret.tag = "returned" /\ IsDisabled(ret.kid))

\* C2: after one call of calc_resonance_params on a record of divide_data, an
\* enabled record holds a parameter set and a fit range, and a disabled record
\* holds resonance_params = None.
C2_EnabledIffParameters ==
    (CalcReturned /\ ret.tag = "returned") =>
        /\ ret.kid.enabled =>
              /\ ret.kid.resonance_params.tag = "Parameters"
              /\ ret.kid.fitrange \notin {None, Absent}
        /\ ~ret.kid.enabled => ret.kid.resonance_params = None

\* The class of the quotient a/b of two doubles (finite quotients neither
\* overflow nor underflow).
QuotientSign(a, b) == IF SignBit(a) = SignBit(b) THEN "p" ELSE "n"

QuotientClass(a, b) ==
    IF a = "nan" \/ b = "nan" THEN "nan"
    ELSE IF (IsZero(a) /\ IsZero(b)) \/ (IsInf(a) /\ IsInf(b)) THEN "nan"
    ELSE IF IsZero(a) \/ IsInf(b)
         THEN (IF QuotientSign(a, b) = "p" THEN "pzero" ELSE "nzero")
    ELSE IF IsZero(b) \/ IsInf(a)
         THEN (IF QuotientSign(a, b) = "p" THEN "pinf" ELSE "ninf")
    ELSE (IF QuotientSign(a, b) = "p" THEN "pos" ELSE "neg")

\* The four conditions of the validity gate, stated on the quotient classes.
ErrorsPresent(p) == \A nm \in StderrNames : p[nm] # "None"

NoNegativeRatio(p) ==
    /\ QuotientClass(p.dfr, p.fr) \notin {"neg", "ninf"}
    /\ QuotientClass(p.dQr, p.Qr) \notin {"neg", "ninf"}
    /\ QuotientClass(p.dQc, p.Qc) \notin {"neg", "ninf"}
    /\ QuotientClass(p.dQi, p.Qi) \notin {"neg", "ninf"}

NoNaN(p) == \A nm \in {"fr", "dfr", "Qr", "dQr"} : p[nm] # "nan"

QFinite(p) == \A nm \in {"Qr", "dQr"} : p[nm] \notin {"pinf", "ninf"}

GateConditions(p) == ErrorsPresent(p) /\ NoNegativeRatio(p) /\ NoNaN(p) /\ QFinite(p)

\* C3: after a fit that returned without raising, resonance_params and
\* fitrange are stored only if the four standard errors are present, no
\* error/value ratio is negative, none of fr, dfr, Qr, dQr is NaN and neither
\* Qr nor dQr is infinite; otherwise the record ends disabled with fitrange
\* and resonance_params None.
C3_ValidityGate ==
    CalcReturned =>
        LET fitted == CallFit
        IN  fitted.tag = "fit" =>
                /\ ret.tag = "returned"
                /\ (/\ ret.kid.resonance_params \notin {None, Absent}
                    /\ ret.kid.fitrange \notin {None, Absent})
                      => GateConditions(fitted.params)
                /\ ~GateConditions(fitted.params) => IsDisabled(ret.kid)

\* A fit that returned an infinite error on Qr, and nothing else wrong, left the
\* record disabled.
C3_Witness ==
    /\ CalcReturned
    /\ CallFit.tag = "fit"
    /\ CallFit.params = [GoodParams EXCEPT !.dQr = "pinf"]
    /\ ret.tag = "returned"
    /\ IsDisabled(ret.kid)

\* C4: an exception raised inside fit_onepeak is caught: the call returns
\* the record with enabled = False, fitrange = None and resonance_params =
\* None, after a single call of fit_onepeak.
C4_FitExceptionDisables ==
    (CalcReturned /\ CallFit = Raise) =>
        /\ ret.tag = "returned"
        /\ ret.fitcalls = 1
        /\ IsDisabled(ret.kid)

\* The window-too-small error of adjust_fitrange, on a sweep the solver would
\* have fitted, left the record disabled.
C4_Witness ==
    /\ CalcReturned
    /\ CallFit = Raise
    /\ Len(CallPeaks.peaks) = 1
    /\ call.kid.localsweep.fit = FitReturns(GoodParams)
    /\ ret.tag = "returned"
    /\ IsDisabled(ret.kid)

\* C5: calc_resonance_params never raises: every call ends in a returned
\* record.
C5_NeverRaises ==
    CalcReturned => ret.tag = "returned"

\* C6: Disabled is terminal: every record of divide_data starts enabled, and
\* no call of calc_resonance_params, make_reduced_fits or plot sets enabled
\* back to True on a record whose enabled is False (nor adds or drops a record).
C6_DisabledIsTerminal ==
    /\ \A i \in 1..Len(kids) : kids[i].enabled = TRUE
    /\ [][/\ Len(kids') = Len(kids)
          /\ \A i \in 1..Len(kids) :
                kids[i].enabled = FALSE => kids'[i].enabled = FALSE]_vars

\* A record disabled by a narrow window, fitted again with the default window,
\* reduced and handed to plot: it holds parameters and is still disabled.
C6_Witness ==
    \E i \in 1..Len(kids) :
        /\ kids[i].enabled = FALSE
        /\ kids[i].resonance_params.tag = "Parameters"
        /\ kids[i].rewound_tod.tag = "FixedFitData"
        /\ call = [fn |-> "plot", kidid |-> kids[i].kidid]

\* The window of the examined call before and after clamping.
CallUnclamped ==
    UnclampedRange(call.nfwhm, call.nparams, call.peakparams, call.factor)

CallClamped == ClampRange(CallUnclamped, call.ndata)

FitReturned == call.fn = "adjust_fitrange" /\ ret # Pending

\* C7: whenever adjust_fitrange returns a window, the slice [begin, end)
\* satisfies 0 <= begin < end <= ndata and (end - begin)*factor >= nparams.
C7_WindowInsideSweep ==
    (FitReturned /\ ret.tag = "slice") =>
        /\ 0 <= ret.start
        /\ ret.start < ret.stop
        /\ ret.stop <= call.ndata
        /\ (ret.stop - ret.start) * call.factor >= call.nparams

\* A returned window that had to be clamped on the left, as fit_onepeak calls it.
C7_Witness ==
    /\ FitReturned
    /\ ret.tag = "slice"
    /\ call.factor = 1
    /\ CallUnclamped.rbegin < 0

\* C8: adjust_fitrange fails exactly when the number of samples of the clamped
\* window [begin, end) times the real/imaginary duplication factor of the fit
\* (two residuals per complex sample in fit_onepeak, which passes no factor)
\* is below 11; otherwise it returns the window.
C8_FailsExactlyBelowEleven ==
    (FitReturned /\ call.factor = 1) =>
        (ret = Raise <=> (CallClamped.rend - CallClamped.rbegin) * 2 < MinFitLength)

\* C9: in both detection modes and for every clusterize_thresh and offset,
\* a mask returned by find_glitch has exactly as many elements as the
\* timestream.
C9_MaskLengthIsTimestreamLength ==
    (call.fn = "find_glitch" /\ ret # Pending /\ ret.tag = "mask") =>
        Len(ret.bad) = Len(call.yss[1])

\* A second-derivative mask of a full-length timestream with a flagged and an
\* unflagged sample, extended by an offset.
C9_Witness ==
    /\ call.fn = "find_glitch"
    /\ ret # Pending
    /\ ret.tag = "mask"
    /\ call.opt_diff2
    /\ call.offset > 0
    /\ Len(call.yss[1]) = MaxLen
    /\ \E j \in 1..Len(ret.bad) : ret.bad[j]
    /\ \E j \in 1..Len(ret.bad) : ~ret.bad[j]

\* Index j (from 1) lies in a run of unflagged samples of length <= threshold
\* with a flagged sample immediately before and immediately after the run.
InShortGap(indices, threshold, j) ==
    /\ ~indices[j]
    /\ \E a \in 1..(j - 1) : \E b \in (j + 1)..Len(indices) :
          /\ indices[a]
          /\ indices[b]
          /\ \A k \in (a + 1)..(b - 1) : ~indices[k]
          /\ b - a - 1 <= threshold

\* C10: _clusterize_indices returns a mask of the same length whose element j
\* is True iff indices[j] is True or j lies in a run of unflagged samples of
\* length <= threshold enclosed by flagged samples; the input is not modified.
C10_ClusterizeFillsShortGaps ==
    (call.fn = "_clusterize_indices" /\ ret # Pending) =>
        /\ Len(ret.bad) = Len(call.indices)
        /\ \A j \in 1..Len(call.indices) :
              ret.bad[j] <=> (call.indices[j] \/ InShortGap(call.indices, call.threshold, j))
        /\ ret.indices = call.indices

\* A mask with a gap that is filled, a longer gap that is kept and unflagged
\* samples before the first flag.
C10_Witness ==
    /\ call.fn = "_clusterize_indices"
    /\ ret # Pending
    /\ Len(call.indices) > 0
    /\ ~call.indices[1]
    /\ \E j \in 1..Len(call.indices) : ret.bad[j] /\ ~call.indices[j]
    /\ \E j \in 2..(Len(call.indices) - 1) :
          /\ ~ret.bad[j]
          /\ \E a \in 1..(j - 1) : call.indices[a]
          /\ \E b \in (j + 1)..Len(call.indices) : call.indices[b]

InterpReturned == call.fn = "interpolate_bad" /\ ret # Pending /\ ret.tag = "array"

\* C11: interpolate_bad with an all-False mask returns an array equal element
\* for element to its input, on a first pass and on the second pass over an
\* already deglitched timestream.
C11_EmptyMaskIsIdentity ==
    (InterpReturned /\ \A k \in 1..Len(call.bad) : ~call.bad[k]) =>
        /\ Len(ret.ys) = Len(call.ys)
        /\ \A k \in 1..Len(call.ys) : RatEq(ret.ys[k], call.ys[k])

\* The second pass returned, over a timestream the first pass had changed by
\* a value that is not an integer.
C11_Witness ==
    /\ InterpReturned
    /\ call.pass = 2
    /\ \E k \in 1..Len(call.ys) : call.ys[k].num % call.ys[k].den # 0

\* The repaired value at Python index x: the sample itself when it is
\* not flagged, else the line between the nearest unflagged samples on both
\* sides, else the value of the nearest unflagged sample.
NearestGoodBelow(bad, x) ==
    CHOOSE a \in 0..x : ~bad[a + 1] /\ \A k \in (a + 1)..x : bad[k + 1]

NearestGoodAbove(bad, x) ==
    CHOOSE b \in x..(Len(bad) - 1) : ~bad[b + 1] /\ \A k \in x..(b - 1) : bad[k + 1]

ExpectedAt(ys, bad, x) ==
    LET hasBelow == \E a \in 0..x : ~bad[a + 1]
        hasAbove == \E b \in x..(Len(bad) - 1) : ~bad[b + 1]
    IN  IF ~bad[x + 1] THEN ys[x + 1]
        ELSE IF hasBelow /\ hasAbove
        THEN LineAt(NearestGoodBelow(bad, x), ys[NearestGoodBelow(bad, x) + 1],
                    NearestGoodAbove(bad, x), ys[NearestGoodAbove(bad, x) + 1], x)
        ELSE IF hasBelow THEN ys[NearestGoodBelow(bad, x) + 1]
        ELSE ys[NearestGoodAbove(bad, x) + 1]

\* C12 as stated: after interpolate_bad(ys, bad) the array ys passed in holds
\* the interpolated values at the flagged indices, with its length unchanged.
C12_RepairedInPlace ==
    InterpReturned =>
        /\ Len(ret.arg) = Len(call.ys)
        /\ \A k \in 1..Len(call.ys) : RatEq(ret.arg[k], ExpectedAt(call.ys, call.bad, k - 1))

\* C12 amended: interpolate_bad returns a new array of the length of ys that
\* holds the samples of ys at the unflagged indices, in their order, and the
\* interpolated values at the flagged indices; the array ys passed in is not
\* modified.
C12_RepairedCopy ==
    InterpReturned =>
        /\ Len(ret.ys) = Len(call.ys)
        /\ \A k \in 1..Len(call.ys) : RatEq(ret.ys[k], ExpectedAt(call.ys, call.bad, k - 1))
        /\ ret.arg = call.ys

\* A returned array that differs from the array passed in at a flagged index
\* between two unflagged samples.
C12_Witness ==
    /\ InterpReturned
    /\ \E k \in 2..(Len(call.ys) - 1) :
          /\ call.bad[k]
          /\ ~call.bad[k - 1]
          /\ ~call.bad[k + 1]
          /\ ~RatEq(ret.ys[k], call.ys[k])

CalibReturned == call.fn = "calibrate_with_blind_tones" /\ ret # Pending

\* C13: calibrate_with_blind_tones given two identical reference tones (same
\* frequency, same IQ samples) and a signal tone equal to that reference tone
\* returns a calibrated signal whose every sample is 1.
C13_IdenticalTonesGiveOnes ==
    (CalibReturned /\ call.blind_left = call.blind_right /\ call.signal = call.blind_left) =>
        \A k \in 1..Len(ret.iq) : IsOneC(ret.iq[k])

\* find_peaks has ended, on a sweep without any feature and with the
\* threshold left to be derived.
FlatPeaksCall ==
    /\ call.fn = "find_peaks"
    /\ ret # Pending
    /\ call.threshold = NoThreshold
    /\ call.sweep.deriv2 = Flat(call.sweep.n)

NoCandidates == [tag |-> "peaks", peaks |-> <<>>]

\* C14 as stated: find_peaks called on a flat amplitude array (second
\* derivative zero everywhere, threshold derived from an empty trimmed set)
\* returns an empty candidate list without raising.
C14_FlatGivesNoPeaks == FlatPeaksCall => ret = NoCandidates

\* C14 amended: on a flat amplitude array that has at least two samples and at
\* least as many samples as the smoothing window oddify(smooth), with a window
\* above the polynomial order 3, find_peaks returns an empty list without
\* raising; on a shorter flat array, or with a smaller window, it raises.
C14_FlatGivesNoPeaksIfSmoothable ==
    FlatPeaksCall =>
        IF /\ call.sweep.n >= 2
           /\ oddify(call.smooth) > SavgolPolyorder
           /\ oddify(call.smooth) <= call.sweep.n
        THEN ret = NoCandidates
        ELSE ret = Raise

\* A flat sweep as long as the default window returned no candidates.
C14_Witness ==
    /\ FlatPeaksCall
    /\ call.smooth = DefaultSmooth
    /\ call.sweep.n = oddify(DefaultSmooth)
    /\ ret = NoCandidates

NearestReturned ==
    call.fn = "find_nearest_blind_tones" /\ ret # Pending /\ ret.by = "find_nearest_blind_tones"

\* The largest blind bin below kid, or None.
LargestBlindBelow(blinds, kid) ==
    LET below == { b \in Elems(blinds) : b < kid }
    IN  IF below = {} THEN None ELSE SomeBin(CHOOSE b \in below : \A c \in below : c <= b)

\* The smallest blind bin above kid, or None.
SmallestBlindAbove(blinds, kid) ==
    LET above == { b \in Elems(blinds) : b > kid }
    IN  IF above = {} THEN None ELSE SomeBin(CHOOSE b \in above : \A c \in above : b <= c)

\* C15: for a kidslist whose KID bins and blind bins are disjoint,
\* find_nearest_blind_tones returns one row [kid, left, right] per KID bin, in
\* ascending order of KID bin, with left the largest blind bin below kid and
\* right the smallest blind bin above it, None where there is none; the rows
\* equal those of kids_with_both_blinds(kidslist, allow_without_blind=True).
C15_NearestBlindTones ==
    NearestReturned =>
        LET rows   == ret.rows
            blinds == call.kidslist.blinds
        IN  /\ Len(rows) = Len(call.kidslist.kids)
            /\ { rows[p].kid : p \in 1..Len(rows) } = Elems(call.kidslist.kids)
            /\ \A p \in 1..(Len(rows) - 1) : rows[p].kid < rows[p + 1].kid
            /\ \A p \in 1..Len(rows) :
                  /\ rows[p].left = LargestBlindBelow(blinds, rows[p].kid)
                  /\ rows[p].right = SmallestBlindAbove(blinds, rows[p].kid)
            /\ rows = kids_with_both_blinds(call.kidslist, TRUE)

\* Rows of an unsorted kidslist: a KID whose left blind tone lies beyond
\* another KID and beyond which a further blind tone lies, and a KID without
\* a blind tone to its right.
C15_Witness ==
    /\ NearestReturned
    /\ \E p \in 1..Len(call.kidslist.kids) - 1 : call.kidslist.kids[p] > call.kidslist.kids[p + 1]
    /\ \E p \in 2..Len(ret.rows) :
          /\ ret.rows[p].left # None
          /\ ret.rows[p].left.bin < ret.rows[p - 1].kid
          /\ \E b \in Elems(call.kidslist.blinds) : b < ret.rows[p].left.bin
    /\ \E p \in 1..Len(ret.rows) : ret.rows[p].right = None

\* The tables hold one row and one column per record of ks, in the order of
\* ks, and NaN throughout for every record of ks without fit parameters.
OneRowPerRecord(ks, tables) ==
    /\ tables.nkid = Len(ks)
    /\ Len(tables.kidsinfo) = Len(ks)
    /\ Len(tables.readout) = Len(ks)
    /\ \A i \in 1..Len(ks) :
          /\ tables.kidsinfo[i].kidid = ks[i].kidid
          /\ tables.readout[i].kidid = ks[i].kidid
          /\ HasNoParams(ks[i]) =>
                /\ \A nm \in ParamNames : tables.kidsinfo[i].params[nm] = "nan"
                /\ tables.kidsinfo[i].yfc = "nan"
                /\ tables.kidsinfo[i].linyfc = "nan"
                /\ tables.readout[i].amp = Series("nan", tables.timestamp)
                /\ tables.readout[i].ph = Series("nan", tables.timestamp)
                /\ tables.readout[i].linph = Series("nan", tables.timestamp)

MergeReturned == call.fn = "create_dems" /\ ret # Pending

InOn(lon) == BoundBelow(call.ranges.lon_min_on, lon) /\ BoundAbove(lon, call.ranges.lon_max_on)

InOff(lon) == BoundBelow(call.ranges.lon_min_off, lon) /\ BoundAbove(lon, call.ranges.lon_max_off)

\* C17: with shuttle on (findR off) the state of every sample is decided by
\* its longitude alone: SCAN if lon_min_on < lon < lon_max_on, otherwise OFF if
\* lon_min_off < lon < lon_max_off, otherwise JUNK; no label of the antenna
\* log or of the still option is left.
C17_ShuttleLabels ==
    (MergeReturned /\ call.shuttle) =>
        /\ Len(ret.state) = Len(call.state)
        /\ \A k \in 1..Len(ret.state) :
              ret.state[k] = IF InOn(call.lon[k]) THEN "SCAN"
                             ELSE IF InOff(call.lon[k]) THEN "OFF"
                             ELSE "JUNK"

\* A product labelled with still and shuttle on whose ranges overlap: one
\* sample in both ranges, one on the bound of the only range it touches, one
\* with a NaN longitude.
C17_Witness ==
    /\ MergeReturned
    /\ call.shuttle
    /\ call.still
    /\ \E k \in 1..Len(ret.state) : InOn(call.lon[k]) /\ InOff(call.lon[k]) /\ ret.state[k] = "SCAN"
    /\ \E k \in 1..Len(ret.state) :
          /\ call.lon[k] = Lon(call.ranges.lon_max_off)
          /\ ~InOn(call.lon[k])
          /\ ret.state[k] = "JUNK"
    /\ \E k \in 1..Len(ret.state) : call.lon[k] = LonNaN /\ ret.state[k] = "JUNK"

\* C18: with still on and an integer period p > 0 (shuttle and findR off)
\* every sample, the last one included, is labelled OFF when floor(t / p) is
\* even and SCAN when it is odd, t being its time in seconds since the first
\* sample; no label of the antenna log is kept.
C18_StillLabels ==
    (MergeReturned /\ call.still /\ ~call.shuttle) =>
        /\ Len(ret.state) = Len(call.state)
        /\ \A k \in 1..Len(ret.state) :
              ret.state[k] = IF ((call.times[k] - call.times[1]) \div (2 * call.period)) % 2 = 0
                             THEN "OFF" ELSE "SCAN"

\* A product whose last sample lies on the start of an odd period beyond the
\* second one, having come with the label GRAD.
C18_Witness ==
    /\ MergeReturned
    /\ call.still
    /\ ~call.shuttle
    /\ LET n == Len(call.times)
           t == call.times[n] - call.times[1]
       IN  /\ t = 2 * call.period * 3
           /\ call.state[n] = "GRAD"
           /\ ret.state[n] = "SCAN"

GlitchReturned == call.fn = "find_glitch" /\ ret # Pending /\ ret.tag = "mask"

\* C19: in second-derivative mode the mask returned by find_glitch always has
\* its first and its last sample flagged, whatever the data and thresholds.
C19_EdgesFlagged ==
    (GlitchReturned /\ call.opt_diff2) => (ret.bad[1] /\ ret.bad[Len(ret.bad)])

\* The mask of the examined call before the offset step.
CallBeforeOffset ==
    GlitchBeforeOffset(call.yss, call.baseline_thresh, call.glitch_thresh,
                       call.clusterize_thresh, call.opt_diff2, call.smrange)

\* C20: with offset k > 0 the returned mask is True at index j if and only if
\* the mask before the offset step is True at some index i with
\* j - k <= i <= j (forward only, without cascade, cut at the array end); with
\* offset 0 the mask is returned unchanged.
C20_OffsetExtendsForward ==
    GlitchReturned =>
        LET pre == CallBeforeOffset
            k   == call.offset
        IN  /\ Len(ret.bad) = Len(pre)
            /\ k = 0 => ret.bad = pre
            /\ k > 0 => \A j \in 1..Len(pre) :
                           ret.bad[j] <=> \E i \in Max(1, j - k)..j : pre[i]

\* A flagged run with unflagged samples on both sides was extended by the
\* offset: the sample after it is flagged, a later one and an earlier one are
\* not.
C20_Witness ==
    /\ GlitchReturned
    /\ call.offset > 0
    /\ LET pre == CallBeforeOffset
       IN  \E i \in 2..(Len(pre) - 2) :
              /\ pre[i]
              /\ ~pre[i - 1]
              /\ ~pre[i + 1]
              /\ ret.bad[i + 1]
              /\ ~ret.bad[i - 1]
              /\ \E j \in (i + 2)..Len(pre) : ~ret.bad[j]

\* C21: adjust_fitrange clamps by shifting: whenever the unclamped window
\* [rbegin, rend) sticks out of the sweep on the left (rbegin < 0) or on the
\* right (rend >= ndata) and is narrower than the sweep, the returned window
\* has the width rend - rbegin of the unclamped one.
C21_ClampKeepsWidth ==
    (/\ FitReturned
     /\ ret.tag = "slice"
     /\ CallUnclamped.rbegin < 0 \/ CallUnclamped.rend >= call.ndata
     /\ CallUnclamped.rend - CallUnclamped.rbegin < call.ndata) =>
        ret.stop - ret.start = CallUnclamped.rend - CallUnclamped.rbegin

PeaksReturned == call.fn = "find_peaks" /\ ret # Pending /\ ret.tag = "peaks"

\* The candidates the loop of find_peaks accepted in the examined call, as
\* tuples (f, q, d, bg) in the order of their indices.
CallAccepted ==
    LorentzLoop(call.sweep.n, call.sweep.deriv2, call.sweep.lorentz, call.minq, call.maxratio,
                KidIndices(call.sweep.deriv2, call.threshold), 1,
                [raised |-> FALSE, used |-> 0, refits |-> 0, kids |-> <<>>]).kids

CarrierInSweep == call.fc >= call.sweep.x0 /\ call.fc <= call.sweep.x0 + call.sweep.n - 1

\* C22: when the carrier frequency lies within the sweep range, find_peaks
\* returns at most one peak, and when a candidate was accepted the returned
\* peak is an accepted candidate whose fitted centre minimises |f0 - fc| over
\* all accepted candidates.
C22_NearestToCarrier ==
    (PeaksReturned /\ CarrierInSweep) =>
        LET accepted == CallAccepted
        IN  /\ Len(ret.peaks) <= 1
            /\ Len(accepted) > 0 =>
                  /\ Len(ret.peaks) = 1
                  /\ \E k \in 1..Len(accepted) :
                        /\ ret.peaks[1].f0 = accepted[k].f
                        /\ ret.peaks[1].Q = accepted[k].q
                        /\ ret.peaks[1].ampl = accepted[k].d
                        /\ ret.peaks[1].bg = accepted[k].bg
                  /\ \A j \in 1..Len(accepted) :
                        Abs(ret.peaks[1].f0 - call.fc) <= Abs(accepted[j].f - call.fc)

\* Two candidates were accepted and the one of the higher frequency was kept.
C22_Witness ==
    /\ PeaksReturned
    /\ CarrierInSweep
    /\ Len(CallAccepted) = 2
    /\ Len(ret.peaks) = 1
    /\ \E j \in 1..2 : CallAccepted[j].f < ret.peaks[1].f0

\* find_peaks has ended in the examined call after the smoothing of line 354.
PeaksSearched ==
    /\ call.fn = "find_peaks"
    /\ ret # Pending
    /\ call.sweep.n >= 2
    /\ ~SavgolRaises(call.sweep.n, call.smooth)

\* kid_indices of the examined call.
CallCandidates == Elems(KidIndices(call.sweep.deriv2, call.threshold))

\* C23: a sample index i is taken as a candidate centre if and only if its
\* second derivative exceeds the threshold and is not smaller than the second
\* derivative of each adjacent sample that exists (index 0 and the last index
\* have one neighbour only).
C23_CandidateIffLocalMax ==
    PeaksSearched =>
        LET deriv2 == call.sweep.deriv2
            n      == Len(deriv2)
            th     == DetectionThreshold(deriv2, call.threshold)
        IN  \A i \in 0..(n - 1) :
               (i \in CallCandidates) <=>
                  /\ AboveThreshold(deriv2, th, i)
                  /\ i = 0 \/ deriv2[i] <= deriv2[i + 1]
                  /\ i = n - 1 \/ deriv2[i + 1] >= deriv2[i + 2]

\* The loop of find_peaks over the first candidate of the examined call alone.
FirstCandidateLoop ==
    LorentzLoop(call.sweep.n, call.sweep.deriv2, call.sweep.lorentz, call.minq, call.maxratio,
                <<KidIndices(call.sweep.deriv2, call.threshold)[1]>>, 1,
                [raised |-> FALSE, used |-> 0, refits |-> 0, kids |-> <<>>])

\* find_peaks returned and the first Lorentzian fit of its first candidate
\* failed the max-ratio test.
FirstFitFailedRatio ==
    /\ PeaksReturned
    /\ Len(KidIndices(call.sweep.deriv2, call.threshold)) > 0
    /\ RatioExceeds(call.sweep.lorentz[1], call.maxratio)

\* The list kids after the acceptance tests of lines 398-404 on the fit.
AcceptedIf(fit) ==
    IF ~(fit.q < call.minq) /\ ~RatioExceeds(fit, call.maxratio) THEN <<fit>> ELSE <<>>

\* The fit window [l, r) of the first candidate (lines 380-388).
FirstWindow ==
    LET i == KidIndices(call.sweep.deriv2, call.threshold)[1]
    IN  [l |-> FitLeft(WalkLeft(call.sweep.deriv2, i), i),
         r |-> FitRight(WalkRight(call.sweep.deriv2, i), i, call.sweep.n)]

\* C24 as stated: whenever the first Lorentzian fit of a candidate fails the
\* max-ratio test, the fit is repeated exactly once on the window widened by 10
\* samples on each side, however close the window is to the ends of the sweep,
\* and the acceptance tests use the second fit.
C24_RefitAlways ==
    FirstFitFailedRatio =>
        /\ FirstCandidateLoop.refits = 1
        /\ FirstCandidateLoop.used = 2
        /\ FirstCandidateLoop.kids = AcceptedIf(call.sweep.lorentz[2])

\* C24 amended: when the first Lorentzian fit of a candidate fails the
\* max-ratio test and the window widened by 10 samples on each side lies inside
\* the sweep (l - 10 >= 0 and r + 10 < len(freq)), the fit is repeated exactly
\* once on the widened window and the acceptance tests use the second fit;
\* when the widened window does not lie inside the sweep there is no second
\* fit and the candidate is rejected on its first fit.
C24_RefitInsideSweep ==
    FirstFitFailedRatio =>
        IF FirstWindow.l - 10 >= 0 /\ FirstWindow.r + 10 < call.sweep.n
        THEN /\ FirstCandidateLoop.refits = 1
             /\ FirstCandidateLoop.used = 2
             /\ FirstCandidateLoop.kids = AcceptedIf(call.sweep.lorentz[2])
        ELSE /\ FirstCandidateLoop.refits = 0
             /\ FirstCandidateLoop.used = 1
             /\ FirstCandidateLoop.kids = <<>>

\* A candidate in the middle of the sweep whose first fit failed the max-ratio
\* test was fitted again and returned with the values of the second fit.
C24_Witness ==
    /\ FirstFitFailedRatio
    /\ FirstCandidateLoop.refits = 1
    /\ Len(ret.peaks) = 1
    /\ ret.peaks[1].Q = call.sweep.lorentz[2].q
    /\ ret.peaks[1].ampl = call.sweep.lorentz[2].d
    /\ call.sweep.lorentz[1].d # call.sweep.lorentz[2].d

\* find_peaks handed the window of its first candidate to fitLorentzian.
FirstWindowFitted ==
    PeaksSearched /\ Len(KidIndices(call.sweep.deriv2, call.threshold)) > 0

\* C25: fitLorentzian never raises: for every window find_peaks hands to it,
\* windows clipped at an end of the sweep that hold fewer samples than the four
\* fitted parameters included, it returns a (center, Q, depth, background)
\* tuple, so the loop over the candidates does not end in an exception.
C25_FitLorentzianNeverRaises ==
    FirstWindowFitted => ~FirstCandidateLoop.raised

\* The second derivative find_glitch computes for the examined call.
CallDiff2 == _numdif_2(GlitchAve(call.yss))

\* The mask find_glitch returns when `flags` are the samples of the second
\* derivative it flags: clustering, the two edge samples and the offset follow.
MaskFromFlags(flags) ==
    OffsetApplied(EdgePadded(_clusterize_indices(flags, call.clusterize_thresh)), call.offset)

\* Trimming at 2 sigma repeated until no sample is excluded: the samples kept.
RECURSIVE TwoSigmaTrim(_)
TwoSigmaTrim(kept) ==
    LET G    == Len(kept)
        next == SelectSeq(kept, LAMBDA x : x * x * G * G < 4 * VarN2(kept))
    IN  IF Len(next) = G THEN kept ELSE TwoSigmaTrim(next)

\* The samples whose magnitude exceeds glitch_thresh times the deviation of the
\* samples kept by the repeated 2-sigma trimming (none when nothing is kept).
TwoSigmaFlags ==
    LET kept == TwoSigmaTrim(CallDiff2)
        G    == Len(kept)
    IN  [k \in 1..Len(CallDiff2) |->
            /\ G > 0
            /\ CallDiff2[k] * CallDiff2[k] * G * G
                   > call.glitch_thresh * call.glitch_thresh * VarN2(kept)]

\* The samples kept by one trimming round at baseline_thresh times the
\* deviation of all samples.
BaselineKept ==
    LET N == Len(CallDiff2)
    IN  SelectSeq(CallDiff2,
                  LAMBDA x : x * x * N * N
                                < call.baseline_thresh * call.baseline_thresh * VarN2(CallDiff2))

\* The samples whose magnitude is at least glitch_thresh times the deviation of
\* the samples of BaselineKept (none when nothing is kept: the deviation is NaN).
BaselineFlags ==
    LET G == Len(BaselineKept)
    IN  [k \in 1..Len(CallDiff2) |->
            /\ G > 0
            /\ CallDiff2[k] * CallDiff2[k] * G * G
                   >= call.glitch_thresh * call.glitch_thresh * VarN2(BaselineKept)]

\* C26 as stated: in second-derivative mode find_glitch estimates the noise
\* sigma by 2-sigma trimming repeated until no sample is excluded, and flags
\* exactly the samples whose second derivative exceeds glitch_thresh times
\* that sigma.
C26_TwoSigmaTrimming ==
    (GlitchReturned /\ call.opt_diff2) => ret.bad = MaskFromFlags(TwoSigmaFlags)

\* C26 amended: in second-derivative mode find_glitch estimates sigma by one
\* trimming round (the samples whose second derivative is baseline_thresh
\* times the deviation of all samples or more from zero are excluded, and
\* sigma is the deviation of the others) and flags exactly the samples whose
\* second derivative is, in magnitude, at least glitch_thresh times that
\* sigma; when the round excludes every sample nothing is flagged.
C26_BaselineTrimming ==
    (GlitchReturned /\ call.opt_diff2) => ret.bad = MaskFromFlags(BaselineFlags)

\* A second-derivative call whose trimming round excluded a sample and kept
\* another, and which flagged one sample of the second derivative and not
\* another.
C26_Witness ==
    /\ GlitchReturned
    /\ call.opt_diff2
    /\ call.offset = 0
    /\ call.clusterize_thresh = 0
    /\ Len(BaselineKept) > 0
    /\ Len(BaselineKept) < Len(CallDiff2)
    /\ \E j, k \in 1..Len(CallDiff2) :
          /\ BaselineFlags[j] /\ ret.bad[j + 1]
          /\ ~BaselineFlags[k] /\ ~ret.bad[k + 1]

InterpDone == call.fn = "interpolate_bad" /\ ret # Pending

\* v = ya + (yb - ya) * (i - a) / (b - a) on fractions.
OnTheLine(v, a, ya, b, yb, i) ==
    v.num * ya.den * yb.den * (b - a)
        = v.den * (ya.num * yb.den * (b - a) + (yb.num * ya.den - ya.num * yb.den) * (i - a))

\* C27: when at least one sample is unflagged, interpolate_bad leaves every
\* unflagged sample with its input value, gives a flagged sample i whose
\* nearest unflagged neighbours are a < i < b the value
\* ys[a] + (ys[b] - ys[a]) * (i - a) / (b - a), and gives the flagged samples
\* before the first (after the last) unflagged sample the value of that first
\* (last) unflagged sample; when every sample is flagged it produces no array.
C27_InterpolatedValues ==
    InterpDone =>
        LET n    == Len(call.ys)
            good == { k \in 1..n : ~call.bad[k] }
        IN  IF good = {}
            THEN ret.tag # "array"
            ELSE /\ ret.tag = "array"
                 /\ Len(ret.ys) = n
                 /\ \A i \in 1..n :
                       LET lower == { a \in good : a < i }
                           upper == { b \in good : b > i }
                       IN  IF i \in good THEN ret.ys[i] = call.ys[i]
                           ELSE IF lower = {}
                           THEN \E b \in upper : /\ \A k \in upper : b <= k
                                                 /\ RatEq(ret.ys[i], call.ys[b])
                           ELSE IF upper = {}
                           THEN \E a \in lower : /\ \A k \in lower : k <= a
                                                 /\ RatEq(ret.ys[i], call.ys[a])
                           ELSE \E a \in lower, b \in upper :
                                   /\ \A k \in lower : k <= a
                                   /\ \A k \in upper : b <= k
                                   /\ OnTheLine(ret.ys[i], a, call.ys[a], b, call.ys[b], i)

\* A returned array with a flagged first sample, a flagged last sample and a
\* flagged sample between unflagged samples of different values.
C27_Witness ==
    /\ InterpDone
    /\ ret.tag = "array"
    /\ Len(call.ys) = MaxLen
    /\ call.bad = <<TRUE, FALSE, TRUE, FALSE, TRUE>>
    /\ ~RatEq(call.ys[2], call.ys[4])
    /\ ~RatEq(ret.ys[3], call.ys[2])
    /\ ~RatEq(ret.ys[3], call.ys[4])
    /\ ~RatEq(ret.ys[1], call.ys[1])

\* interpolate_bad ended without an array: every sample was flagged.
AllFlaggedRaised ==
    /\ InterpDone
    /\ Len(call.ys) = MaxLen
    /\ ret = Raise

\* C28: whenever adjust_fitrange returns a window for a peak with
\* 0 <= f0ind < ndata, dl >= 0, dr >= 0 and nfwhm > 0, the window contains the
\* peak centre: begin <= f0ind < end, also when the peak sits at the first or
\* at the last sample of the sweep.
C28_WindowContainsPeak ==
    (/\ FitReturned /\ ret.tag = "slice"
     /\ 0 <= call.peakparams.f0ind /\ call.peakparams.f0ind < call.ndata
     /\ call.peakparams.dl >= 0 /\ call.peakparams.dr >= 0 /\ call.nfwhm > 0) =>
        /\ ret.start <= call.peakparams.f0ind
        /\ call.peakparams.f0ind < ret.stop

\* The same for a peak at the last sample of the sweep with half widths of two
\* samples on both sides.
PeakAtLastSampleInWindow ==
    (/\ FitReturned /\ ret.tag = "slice"
     /\ call.peakparams.f0ind = call.ndata - 1
     /\ call.peakparams.dl = 2 /\ call.peakparams.dr = 2) =>
        call.peakparams.f0ind < ret.stop

\* The carrier of the examined call of calc_resonance_params lies outside the
\* frequencies of its sweep.
CarrierOutsideSweep ==
    \/ call.kid.tod.frequency < call.kid.localsweep.x0
    \/ call.kid.tod.frequency > call.kid.localsweep.x0 + call.kid.localsweep.n - 1

\* find_peaks returned two peaks or more within the examined call.
CallFoundSeveralPeaks ==
    LET found == CallPeaks IN found # Raise /\ Len(found.peaks) >= 2

\* C29: find_peaks returns two or more peaks only when the carrier frequency
\* lies outside the sweep; fit_onepeak with nfwhm > 0 then raises, whatever the
\* solver would do, and calc_resonance_params ends with enabled = False,
\* fitrange = None and resonance_params = None; fit_onepeak given an empty
\* list of peaks returns (None, None) without raising.
C29_SeveralPeaksDisable ==
    /\ (CalcReturned /\ CallFoundSeveralPeaks) =>
          /\ CarrierOutsideSweep
          /\ call.nfwhm > 0 =>
                /\ CallFit = Raise
                /\ ret.tag = "returned"
                /\ IsDisabled(ret.kid)
    /\ (call.fn = "fit_onepeak" /\ ret # Pending) =>
          /\ Len(call.peaks) = 0 => ret = [tag |-> "none"]
          /\ (Len(call.peaks) >= 2 /\ call.nfwhm > 0) => ret = Raise

\* calc_resonance_params returned a disabled record for a sweep with two
\* accepted peaks, a carrier below the sweep and a solver that would have
\* returned good parameters.
C29_Witness ==
    /\ CalcReturned
    /\ CallFoundSeveralPeaks
    /\ call.nfwhm > 0
    /\ call.kid.localsweep.fit = FitReturns(GoodParams)
    /\ ret.tag = "returned"
    /\ IsDisabled(ret.kid)

\* fit_onepeak returned (None, None) for an empty list, and raised for two
\* peaks with a solver that would have returned good parameters.
OnePeakEmptyReturned ==
    /\ call.fn = "fit_onepeak"
    /\ Len(call.peaks) = 0
    /\ ret = [tag |-> "none"]

OnePeakSeveralRaised ==
    /\ call.fn = "fit_onepeak"
    /\ Len(call.peaks) = 2
    /\ call.nfwhm > 0
    /\ call.sweep.fit = FitReturns(GoodParams)
    /\ ret = Raise

ToSignedReturned == call.fn = "_to_nbit_signed" /\ ret # Pending

\* C30: for every bit width n >= 1 and every x with 0 <= x < 2^n,
\* _to_nbit_signed(x, n) is the n-bit two's-complement value of x: x itself
\* when x < 2^(n-1) and x - 2^n when x >= 2^(n-1), so the result lies in
\* [-2^(n-1), 2^(n-1) - 1].
C30_TwosComplement ==
    (ToSignedReturned /\ call.n >= 1 /\ 0 <= call.x /\ call.x < 2 ^ call.n) =>
        /\ call.x < 2 ^ (call.n - 1) => ret.value = call.x
        /\ call.x >= 2 ^ (call.n - 1) => ret.value = call.x - 2 ^ call.n
        /\ -(2 ^ (call.n - 1)) <= ret.value
        /\ ret.value <= 2 ^ (call.n - 1) - 1

\* The same for every value but the one with only the sign bit set.
TwosComplementButSignBit ==
    (ToSignedReturned /\ call.x # 2 ^ (call.n - 1)) =>
        ret.value = IF call.x < 2 ^ (call.n - 1) THEN call.x ELSE call.x - 2 ^ call.n

=============================================================================
